---- MODULE Spec2Model ----
(***************************************************************************)
(* Markdown <-> ADF conversion of the Jira MCP server.                     *)
(*                                                                         *)
(* The repository holds the converter twice.  src/CHANGELOG.md carries the *)
(* documented converter (parseInlineContent, addBulletItem, addOrderedItem,*)
(* createADFDocument, inlineNodesToText, blockNodeToText, adfToText); the  *)
(* definitions below keep those names.  src/index.js carries               *)
(* createADFDocument alone, in its 1.0.0 form; its definitions end in V1.  *)
(* Spec runs the documented converter, SpecV1 the one of src/index.js.     *)
(* SpecRead runs the read tools on a field of a backend response, and      *)
(* SpecCalls runs conversion call after conversion call in one process.    *)
(* SpecTokens runs parseInlineContent alone, SpecLoop the loops of         *)
(* createADFDocument under weak fairness of their steps.  SpecTools runs   *)
(* the tool handler documented in src/CHANGELOG.md from a call to its      *)
(* result, one step per await, SpecToolsV1 the handler of src/index.js.    *)
(*                                                                         *)
(* A text is a sequence of one-character strings.  A JavaScript value that *)
(* reaches createADFDocument is either Null or Str(s).  ADF nodes are      *)
(* records; an optional field of the JavaScript object (marks, attrs,      *)
(* content) is a field that is in the DOMAIN of the record or not.         *)
(***************************************************************************)
EXTENDS Naturals, Integers, Sequences, FiniteSets, TLC

VARIABLES content, lines, i, nodes, codeLines, lang, pc, doc, out, heap, calls,
          request, env, sent, frame, thrown, reply

\* the state of the tool handler: the call it serves, NODE_ENV, the requests
\* it has sent to the backend, its locals, the error it caught, its result
server == <<request, env, sent, frame, thrown, reply>>

vars == <<content, lines, i, nodes, codeLines, lang, pc, doc, out, heap, calls,
          server>>

----------------------------------------------------------------------------
(* JavaScript values and string primitives *)

Null == [t |-> "null"]

Str(s) == [t |-> "string", s |-> s]

Undefined == [t |-> "undefined"]

\* an object with no field the converter reads
Obj == [t |-> "object"]

\* v == null, true of null and of undefined
nullish(v) == v \in {Null, Undefined}

\* !v, for the values above
falsy(v) == nullish(v) \/ v = Str(<<>>)

\* typeof v === string
isString(v) == "t" \in DOMAIN v /\ v.t = "string"

\* node.type, undefined on a value that has no such field
typeOf(node) == IF "type" \in DOMAIN node THEN node.type ELSE "undefined"

\* what String.prototype.trim removes and what \s matches
WhiteSpace == {" ", "\t", "\n"}

\* the backtick character (a string of the module cannot hold one)
Backtick == "bq"

Digits == {"0", "1", "2", "3", "4", "5", "6", "7", "8", "9"}

RECURSIVE trimStart(_)
trimStart(s) ==
  IF s # <<>> /\ Head(s) \in WhiteSpace THEN trimStart(Tail(s)) ELSE s

RECURSIVE trimEnd(_)
trimEnd(s) ==
  IF s # <<>> /\ s[Len(s)] \in WhiteSpace
    THEN trimEnd(SubSeq(s, 1, Len(s) - 1))
    ELSE s

trim(s) == trimEnd(trimStart(s))

\* s.substring(k), k counted from 0
substring(s, k) == SubSeq(s, k + 1, Len(s))

startsWith(s, prefix) ==
  Len(s) >= Len(prefix) /\ SubSeq(s, 1, Len(prefix)) = prefix

\* the character at position p (from 1), "" outside the text
charAt(text, p) == IF p \in 1..Len(text) THEN text[p] ELSE ""

\* the number of characters from position p on that are not in stop
RECURSIVE runLength(_, _, _)
runLength(text, p, stop) ==
  IF p <= Len(text) /\ text[p] \notin stop
    THEN 1 + runLength(text, p + 1, stop)
    ELSE 0

\* s.split(newline)
RECURSIVE split(_)
split(s) ==
  LET k == runLength(s, 1, {"\n"})
  IN  IF k = Len(s)
        THEN <<s>>
        ELSE <<SubSeq(s, 1, k)>> \o split(SubSeq(s, k + 2, Len(s)))

\* parts.join(sep)
RECURSIVE join(_, _)
join(parts, sep) ==
  IF parts = <<>> THEN <<>>
  ELSE IF Len(parts) = 1 THEN parts[1]
  ELSE parts[1] \o sep \o join(Tail(parts), sep)

\* c.repeat(n)
RECURSIVE repeat(_, _)
repeat(c, n) == IF n = 0 THEN <<>> ELSE <<c>> \o repeat(c, n - 1)

digitChar(d) ==
  CASE d = 0 -> "0" [] d = 1 -> "1" [] d = 2 -> "2" [] d = 3 -> "3"
    [] d = 4 -> "4" [] d = 5 -> "5" [] d = 6 -> "6" [] d = 7 -> "7"
    [] d = 8 -> "8" [] d = 9 -> "9"

\* toString that counts from zero
toStringFromZero(n) == <<digitChar(n - 1)>>

\* the decimal form of n in a template literal
RECURSIVE toString(_)
toString(n) ==
  IF n < 10 THEN <<digitChar(n)>>
  ELSE toString(n \div 10) \o <<digitChar(n % 10)>>

\* parseInt of one digit
parseInt(c) == CHOOSE d \in 0..9 : digitChar(d) = c

----------------------------------------------------------------------------
(* The inline regular expression of parseInlineContent, one operator per   *)
(* alternative.  A match is [alt, index, end, g1, g2]: the alternative     *)
(* that matched, its first position, the position after it, its groups.    *)

NoMatch == [alt |-> 0, index |-> 0, end |-> 0, g1 |-> <<>>, g2 |-> <<>>]

\* matchDelimited with ([^c]*) for its group: nothing between the delimiters
\* is a match too
matchDelimitedEmpty(text, p, delim, alt) ==
  LET n == Len(delim)
      r == runLength(text, p + n, {delim[1]})
  IN  IF /\ p + n - 1 <= Len(text)
         /\ SubSeq(text, p, p + n - 1) = delim
         /\ p + 2 * n + r - 1 <= Len(text)
         /\ SubSeq(text, p + n + r, p + 2 * n + r - 1) = delim
        THEN [alt |-> alt, index |-> p, end |-> p + 2 * n + r,
              g1 |-> SubSeq(text, p + n, p + n + r - 1), g2 |-> <<>>]
        ELSE NoMatch

\* delim ([^c]+) delim, with c the delimiter's character
matchDelimited(text, p, delim, alt) ==
  LET n == Len(delim)
      r == runLength(text, p + n, {delim[1]})
  IN  IF /\ p + n - 1 <= Len(text)
         /\ SubSeq(text, p, p + n - 1) = delim
         /\ r >= 1
         /\ p + 2 * n + r - 1 <= Len(text)
         /\ SubSeq(text, p + n + r, p + 2 * n + r - 1) = delim
        THEN [alt |-> alt, index |-> p, end |-> p + 2 * n + r,
              g1 |-> SubSeq(text, p + n, p + n + r - 1), g2 |-> <<>>]
        ELSE NoMatch

\* \[([^\]]+)\]\(([^)]+)\)
matchMarkdownLink(text, p) ==
  LET r1 == runLength(text, p + 1, {"]"})
      q  == p + 1 + r1
      r2 == runLength(text, q + 2, {")"})
  IN  IF /\ charAt(text, p) = "["
         /\ r1 >= 1
         /\ charAt(text, q) = "]"
         /\ charAt(text, q + 1) = "("
         /\ r2 >= 1
         /\ charAt(text, q + 2 + r2) = ")"
        THEN [alt |-> 4, index |-> p, end |-> q + 3 + r2,
              g1 |-> SubSeq(text, p + 1, q - 1),
              g2 |-> SubSeq(text, q + 2, q + 1 + r2)]
        ELSE NoMatch

\* \[([^\]]+)\|([^\]]+)\] : the first group is greedy, so it ends at the
\* last "|" that leaves the second group a character
matchPipeLink(text, p) ==
  LET r    == runLength(text, p + 1, {"]"})
      q    == p + 1 + r
      bars == {j \in (p + 2)..(q - 2) : text[j] = "|"}
  IN  IF /\ charAt(text, p) = "["
         /\ charAt(text, q) = "]"
         /\ bars # {}
        THEN LET j == CHOOSE b \in bars : \A c \in bars : c <= b
             IN  [alt |-> 5, index |-> p, end |-> q + 1,
                  g1 |-> SubSeq(text, p + 1, j - 1),
                  g2 |-> SubSeq(text, j + 1, q - 1)]
        ELSE NoMatch

\* matchAt that tries the pipe form of a link before the markdown form
matchAtPipeFirst(text, p) ==
  LET strong == matchDelimited(text, p, <<"*", "*">>, 1)
      strike == matchDelimited(text, p, <<"~", "~">>, 2)
      em     == matchDelimited(text, p, <<"*">>, 3)
      mdLink == matchMarkdownLink(text, p)
      pipe   == matchPipeLink(text, p)
      code   == matchDelimited(text, p, <<Backtick>>, 6)
  IN  IF strong.alt # 0 THEN strong
      ELSE IF strike.alt # 0 THEN strike
      ELSE IF em.alt # 0 THEN em
      ELSE IF pipe.alt # 0 THEN pipe
      ELSE IF mdLink.alt # 0 THEN mdLink
      ELSE code

\* the alternatives at one position, in the order the expression lists them
matchAt(text, p) ==
  LET strong == matchDelimited(text, p, <<"*", "*">>, 1)
      strike == matchDelimited(text, p, <<"~", "~">>, 2)
      em     == matchDelimited(text, p, <<"*">>, 3)
      mdLink == matchMarkdownLink(text, p)
      pipe   == matchPipeLink(text, p)
      code   == matchDelimited(text, p, <<Backtick>>, 6)
  IN  IF strong.alt # 0 THEN strong
      ELSE IF strike.alt # 0 THEN strike
      ELSE IF em.alt # 0 THEN em
      ELSE IF mdLink.alt # 0 THEN mdLink
      ELSE IF pipe.alt # 0 THEN pipe
      ELSE code

\* regex.exec(text) with lastIndex at position from: the leftmost match
RECURSIVE exec(_, _)
exec(text, from) ==
  IF from > Len(text) THEN NoMatch
  ELSE LET m == matchAt(text, from)
       IN  IF m.alt # 0 THEN m ELSE exec(text, from + 1)

plainNode(text) == [type |-> "text", text |-> text]

markedNode(text, mark) == [type |-> "text", text |-> text, marks |-> <<mark>>]

linkMark(href) == [type |-> "link", attrs |-> [href |-> href]]

\* matchNode that tokenizes the text of a strong span again and gives a link
\* found there both marks
matchNodeNested(m) ==
  LET inner == matchMarkdownLink(m.g1, 1)
  IN  IF m.alt = 1 /\ inner.alt # 0 /\ inner.end = Len(m.g1) + 1
        THEN [type |-> "text", text |-> inner.g1,
              marks |-> <<[type |-> "strong"], linkMark(inner.g2)>>]
      ELSE IF m.alt = 1 THEN markedNode(m.g1, [type |-> "strong"])
      ELSE IF m.alt = 2 THEN markedNode(m.g1, [type |-> "strike"])
      ELSE IF m.alt = 3 THEN markedNode(m.g1, [type |-> "em"])
      ELSE IF m.alt = 6 THEN markedNode(m.g1, [type |-> "code"])
      ELSE markedNode(m.g1, linkMark(m.g2))

\* the node pushed for a match
matchNode(m) ==
  CASE m.alt = 1 -> markedNode(m.g1, [type |-> "strong"])
    [] m.alt = 2 -> markedNode(m.g1, [type |-> "strike"])
    [] m.alt = 3 -> markedNode(m.g1, [type |-> "em"])
    [] m.alt = 4 -> markedNode(m.g1, linkMark(m.g2))
    [] m.alt = 5 -> markedNode(m.g1, linkMark(m.g2))
    [] m.alt = 6 -> markedNode(m.g1, [type |-> "code"])

\* the text before a match, pushed when the match does not start at lastIndex
leadingText(text, lastIndex, m) ==
  IF m.index > lastIndex
    THEN <<plainNode(SubSeq(text, lastIndex, m.index - 1))>>
    ELSE <<>>

\* trailingText with the bound of its test off by one
trailingTextOffByOne(text, lastIndex) ==
  IF lastIndex < Len(text)
    THEN <<plainNode(SubSeq(text, lastIndex, Len(text)))>>
    ELSE <<>>

\* the text after the last match
trailingText(text, lastIndex) ==
  IF lastIndex <= Len(text)
    THEN <<plainNode(SubSeq(text, lastIndex, Len(text)))>>
    ELSE <<>>

\* the while loop of parseInlineContent from lastIndex on, and the tail
RECURSIVE scanInline(_, _)
scanInline(text, lastIndex) ==
  LET m == exec(text, lastIndex)
  IN  IF m.alt = 0
        THEN trailingText(text, lastIndex)
        ELSE leadingText(text, lastIndex, m) \o <<matchNode(m)>>
               \o scanInline(text, m.end)

parseInlineContent(text) ==
  IF text = <<>> THEN <<>>
  ELSE LET parts == scanInline(text, 1)
       IN  IF Len(parts) > 0 THEN parts ELSE <<plainNode(text)>>

----------------------------------------------------------------------------
(* The block builder: createADFDocument and its helpers *)

\* the number of characters from position p on that are in set
RECURSIVE spanLength(_, _, _)
spanLength(text, p, set) ==
  IF p <= Len(text) /\ text[p] \in set
    THEN 1 + spanLength(text, p + 1, set)
    ELSE 0

\* \s+(.+) at position p, up to the end of the line: the first group takes
\* the rest of the line; \s+ gives back one character when nothing is left
afterSpaces(line, p) ==
  LET w == spanLength(line, p, WhiteSpace)
  IN  IF w >= 1 /\ p + w <= Len(line)
        THEN [ok |-> TRUE, rest |-> SubSeq(line, p + w, Len(line))]
      ELSE IF w >= 2
        THEN [ok |-> TRUE, rest |-> SubSeq(line, p + w - 1, Len(line))]
      ELSE [ok |-> FALSE, rest |-> <<>>]

\* line.match(/^h([1-6])\.\s+(.+)/)
jiraHeading(line) ==
  IF /\ charAt(line, 1) = "h"
     /\ charAt(line, 2) \in {"1", "2", "3", "4", "5", "6"}
     /\ charAt(line, 3) = "."
     /\ afterSpaces(line, 4).ok
    THEN [ok |-> TRUE, level |-> parseInt(line[2]),
          text |-> afterSpaces(line, 4).rest]
    ELSE [ok |-> FALSE, level |-> 0, text |-> <<>>]

\* line.match(/^(#{1,6})\s+(.+)/)
mdHeading(line) ==
  LET h == spanLength(line, 1, {"#"})
  IN  IF h >= 1 /\ h <= 6 /\ afterSpaces(line, h + 1).ok
        THEN [ok |-> TRUE, level |-> h, text |-> afterSpaces(line, h + 1).rest]
        ELSE [ok |-> FALSE, level |-> 0, text |-> <<>>]

\* the length of the match of /^\d+\.\s+/, 0 when the line does not match
orderedMarker(line) ==
  LET d == spanLength(line, 1, Digits)
      w == spanLength(line, d + 2, WhiteSpace)
  IN  IF d >= 1 /\ charAt(line, d + 1) = "." /\ w >= 1
        THEN d + 1 + w
        ELSE 0

Fence == <<Backtick, Backtick, Backtick>>

paragraph(inline) == [type |-> "paragraph", content |-> inline]

\* listItem that holds the inline nodes with no paragraph around them
listItemBare(inline) == [type |-> "listItem", content |-> inline]

listItem(inline) == [type |-> "listItem", content |-> <<paragraph(inline)>>]

\* lastNode && lastNode.type === type
lastIs(blocks, type) == blocks # <<>> /\ blocks[Len(blocks)].type = type

\* lastNode.content.push(child)
pushToLast(blocks, child) ==
  [blocks EXCEPT ![Len(blocks)].content = Append(@, child)]

addBulletItem(blocks, inline) ==
  IF lastIs(blocks, "bulletList")
    THEN pushToLast(blocks, listItem(inline))
    ELSE Append(blocks, [type |-> "bulletList", content |-> <<listItem(inline)>>])

\* addOrderedItem that takes any list for the list to go on with
addOrderedItemAnyList(blocks, inline) ==
  IF lastIs(blocks, "orderedList") \/ lastIs(blocks, "bulletList")
    THEN pushToLast(blocks, listItem(inline))
    ELSE Append(blocks, [type |-> "orderedList", content |-> <<listItem(inline)>>])

addOrderedItem(blocks, inline) ==
  IF lastIs(blocks, "orderedList")
    THEN pushToLast(blocks, listItem(inline))
    ELSE Append(blocks, [type |-> "orderedList", content |-> <<listItem(inline)>>])

\* addQuoteLine that starts a blockquote for every line
addQuoteLineAlone(blocks, inline) ==
  Append(blocks, [type |-> "blockquote", content |-> <<paragraph(inline)>>])

\* the blockquote arm
addQuoteLine(blocks, inline) ==
  IF lastIs(blocks, "blockquote")
    THEN pushToLast(blocks, paragraph(inline))
    ELSE Append(blocks, [type |-> "blockquote", content |-> <<paragraph(inline)>>])

\* lineKind that knows the rule of four dashes only
lineKindLongRule(line) ==
  IF jiraHeading(line).ok THEN "jiraHeading"
  ELSE IF mdHeading(line).ok THEN "mdHeading"
  ELSE IF startsWith(line, <<"*", " ">>) \/ startsWith(line, <<"-", " ">>)
    THEN "bullet"
  ELSE IF orderedMarker(line) > 0 THEN "ordered"
  ELSE IF startsWith(line, <<">", " ">>) THEN "quote"
  ELSE IF line = <<"-", "-", "-", "-">> THEN "rule"
  ELSE IF line = Fence \/ startsWith(line, Fence) THEN "fence"
  ELSE "paragraph"

\* the arm of the if-chain that a trimmed, non-empty line takes
lineKind(line) ==
  IF jiraHeading(line).ok THEN "jiraHeading"
  ELSE IF mdHeading(line).ok THEN "mdHeading"
  ELSE IF startsWith(line, <<"*", " ">>) \/ startsWith(line, <<"-", " ">>)
    THEN "bullet"
  ELSE IF orderedMarker(line) > 0 THEN "ordered"
  ELSE IF startsWith(line, <<">", " ">>) THEN "quote"
  ELSE IF line = <<"-", "-", "-", "-">> \/ line = <<"-", "-", "-">> THEN "rule"
  ELSE IF line = Fence \/ startsWith(line, Fence) THEN "fence"
  ELSE "paragraph"

heading(level, inline) ==
  [type |-> "heading", attrs |-> [level |-> level], content |-> inline]

\* what one line that is not a fence does to nodes
pushLine(blocks, line) ==
  LET kind == lineKind(line)
  IN  CASE kind = "jiraHeading" ->
             Append(blocks, heading(jiraHeading(line).level,
                                    parseInlineContent(jiraHeading(line).text)))
        [] kind = "mdHeading" ->
             Append(blocks, heading(mdHeading(line).level,
                                    parseInlineContent(mdHeading(line).text)))
        [] kind = "bullet" ->
             addBulletItem(blocks, parseInlineContent(substring(line, 2)))
        [] kind = "ordered" ->
             addOrderedItem(blocks,
               parseInlineContent(substring(line, orderedMarker(line))))
        [] kind = "quote" ->
             addQuoteLine(blocks, parseInlineContent(substring(line, 2)))
        [] kind = "rule" -> Append(blocks, [type |-> "rule"])
        [] OTHER -> Append(blocks, paragraph(parseInlineContent(line)))

\* the language tag of a fence line; <<>> stands for null and for the empty
\* string, which if (lang) treats alike
fenceLang(line) == IF Len(line) > 3 THEN trim(substring(line, 3)) ELSE <<>>

\* captures that compares the line as it is, not trimmed
capturesUntrimmed(ls, k) == k <= Len(ls) /\ ls[k] # Fence

\* the condition of the capture loop on lines[k]
captures(ls, k) == k <= Len(ls) /\ trim(ls[k]) # Fence

\* the code block pushed when the capture loop ends
codeBlock(captured, language) ==
  LET codeText == join(captured, <<"\n">>)
  IN  IF codeText # <<>> /\ language # <<>>
        THEN [type |-> "codeBlock", content |-> <<plainNode(codeText)>>,
              attrs |-> [language |-> language]]
      ELSE IF codeText # <<>>
        THEN [type |-> "codeBlock", content |-> <<plainNode(codeText)>>]
      ELSE IF language # <<>>
        THEN [type |-> "codeBlock", attrs |-> [language |-> language]]
      ELSE [type |-> "codeBlock"]

emptyParagraph == [type |-> "paragraph", content |-> <<>>]

document(blocks) == [type |-> "doc", version |-> 1, content |-> blocks]

\* finish that pushes the empty paragraph whatever nodes holds
finishAlwaysPads(blocks) == document(Append(blocks, emptyParagraph))

\* the return statement, after the check for nodes.length === 0
finish(blocks) ==
  document(IF Len(blocks) = 0 THEN <<emptyParagraph>> ELSE blocks)

\* !content || typeof content !== string
absent(value) == value.t # "string" \/ value.s = <<>>

\* the for loop from index k on (k from 1), as one function
RECURSIVE build(_, _, _)
build(ls, k, blocks) ==
  IF k > Len(ls) THEN blocks
  ELSE LET line == trim(ls[k])
       IN  IF line = <<>> THEN build(ls, k + 1, blocks)
           ELSE IF lineKind(line) = "fence"
             THEN LET n == CHOOSE m \in 0..Len(ls) :
                             /\ \A j \in (k + 1)..(k + m) : captures(ls, j)
                             /\ ~captures(ls, k + m + 1)
                  IN  build(ls, k + n + 2,
                            Append(blocks, codeBlock(SubSeq(ls, k + 1, k + n),
                                                     fenceLang(line))))
           ELSE build(ls, k + 1, pushLine(blocks, line))

createADFDocument(value) ==
  IF absent(value) THEN document(<<emptyParagraph>>)
  ELSE finish(build(split(value.s), 1, <<>>))

----------------------------------------------------------------------------
(* The renderer: inlineNodesToText, blockNodeToText, adfToText *)

\* node.attrs?.name || (empty string): a missing attribute reads as empty
attr(node, name) ==
  IF "attrs" \in DOMAIN node /\ name \in DOMAIN node.attrs
    THEN node.attrs[name]
    ELSE <<>>

\* one case of the switch over mark.type
applyMark(text, mark) ==
  CASE typeOf(mark) = "strong" -> <<"*", "*">> \o text \o <<"*", "*">>
    [] typeOf(mark) = "em" -> <<"*">> \o text \o <<"*">>
    [] typeOf(mark) = "strike" -> <<"~", "~">> \o text \o <<"~", "~">>
    [] typeOf(mark) = "code" -> <<Backtick>> \o text \o <<Backtick>>
    [] typeOf(mark) = "link" ->
         <<"[">> \o text \o <<"]", "(">> \o attr(mark, "href") \o <<")">>
    [] OTHER -> text

\* the for loop over node.marks
RECURSIVE applyMarks(_, _)
applyMarks(text, marks) ==
  IF marks = <<>> THEN text
  ELSE applyMarks(applyMark(text, Head(marks)), Tail(marks))

\* the callback of nodes.map in inlineNodesToText
inlineNodeToText(node) ==
  CASE typeOf(node) = "text" ->
         applyMarks(IF "text" \in DOMAIN node THEN node.text ELSE <<>>,
                    IF "marks" \in DOMAIN node THEN node.marks ELSE <<>>)
    [] typeOf(node) = "hardBreak" -> <<"\n">>
    [] typeOf(node) = "mention" ->
         <<"@">> \o (IF attr(node, "text") # <<>> THEN attr(node, "text")
                     ELSE attr(node, "id"))
    [] typeOf(node) = "inlineCard" -> attr(node, "url")
    [] typeOf(node) = "emoji" -> attr(node, "shortName")
    [] OTHER -> <<>>

RECURSIVE concatMap(_)
concatMap(texts) ==
  IF texts = <<>> THEN <<>> ELSE Head(texts) \o concatMap(Tail(texts))

inlineNodesToText(inline) ==
  concatMap([k \in 1..Len(inline) |-> inlineNodeToText(inline[k])])

\* node.content || [] ; a node without the field has no children.  The field
\* content of a record is an array; a content that is any other value is
\* the field notArray (see the throw conditions below)
children(node) == IF "content" \in DOMAIN node THEN node.content ELSE <<>>

\* tableLine that leaves out the bars at the two ends of the line
tableLineBare(cellTexts) == join(cellTexts, <<" ", "|", " ">>)

\* the line of one table row, given the texts of its cells
tableLine(cellTexts) ==
  <<"|", " ">> \o join(cellTexts, <<" ", "|", " ">>) \o <<" ", "|">>

\* node.attrs?.level || 1
headingLevel(node) ==
  IF "attrs" \in DOMAIN node /\ "level" \in DOMAIN node.attrs
       /\ node.attrs.level # 0
    THEN node.attrs.level
    ELSE 1

RECURSIVE blockNodeToText(_)
blockNodeToText(node) ==
  LET kids == children(node)
      \* (x.content || []).map(c => blockNodeToText(c)).join(sep)
      inner(x, sep) ==
        join([k \in 1..Len(children(x)) |-> blockNodeToText(children(x)[k])], sep)
  IN  CASE falsy(node) -> <<>>
        [] typeOf(node) = "paragraph" -> inlineNodesToText(kids)
        [] typeOf(node) = "heading" ->
             repeat("#", headingLevel(node))
               \o <<" ">> \o inlineNodesToText(kids)
        [] typeOf(node) = "bulletList" ->
             join([k \in 1..Len(kids) |->
                     <<"-", " ">> \o inner(kids[k], <<"\n">>)], <<"\n">>)
        [] typeOf(node) = "orderedList" ->
             join([k \in 1..Len(kids) |->
                     toString(k) \o <<".", " ">> \o inner(kids[k], <<"\n">>)],
                  <<"\n">>)
        [] typeOf(node) = "blockquote" ->
             join([k \in 1..Len(kids) |->
                     <<">", " ">> \o blockNodeToText(kids[k])], <<"\n">>)
        [] typeOf(node) = "codeBlock" ->
             Fence \o attr(node, "language") \o <<"\n">>
               \o inlineNodesToText(kids) \o <<"\n">> \o Fence
        [] typeOf(node) = "rule" -> <<"-", "-", "-">>
        [] typeOf(node) = "table" ->
             join([r \in 1..Len(kids) |->
                     tableLine([c \in 1..Len(children(kids[r])) |->
                                  inner(children(kids[r])[c], <<" ">>)])],
                  <<"\n">>)
        [] typeOf(node) \in {"mediaSingle", "mediaGroup"} ->
             <<"[", "m", "e", "d", "i", "a", "]">>
        [] OTHER -> inlineNodesToText(kids)

\* !doc || doc.type !== doc || !Array.isArray(doc.content)
noDocument(d) == falsy(d) \/ typeOf(d) # "doc" \/ "content" \notin DOMAIN d

\* a value that is no document gives itself when it is a string, else the
\* empty string
adfToText(d) ==
  IF noDocument(d)
    THEN IF isString(d) THEN d.s ELSE <<>>
    ELSE join([k \in 1..Len(d.content) |-> blockNodeToText(d.content[k])],
              <<"\n", "\n">>)

----------------------------------------------------------------------------
(* Where the renderer throws a TypeError.  A tree that comes from the       *)
(* backend can hold null, a string or a bare object where a node or an     *)
(* array is expected.  An array is a sequence in the field content; a      *)
(* content that is anything else is carried in the field notArray.         *)

\* (x.content || []).map is not a function: the content is a truthy value
\* that is no array
mapThrows(x) == "notArray" \in DOMAIN x /\ ~falsy(x.notArray)

\* the callback of nodes.map reads node.type, and mark.type of every mark
inlineNodeThrows(node) ==
  \/ nullish(node)
  \/ /\ typeOf(node) = "text"
     /\ "marks" \in DOMAIN node
     /\ \E k \in 1..Len(node.marks) : nullish(node.marks[k])

\* inlineNodesToText of the array a node holds; no array, no callback
inlineThrows(inline) == \E k \in 1..Len(inline) : inlineNodeThrows(inline[k])

RECURSIVE blockThrows(_)
blockThrows(node) ==
  LET kids == children(node)
      \* (x.content || []).map(c => blockNodeToText(c)) for an entry x
      inner(x) ==
        \/ nullish(x)
        \/ mapThrows(x)
        \/ \E k \in 1..Len(children(x)) : blockThrows(children(x)[k])
  IN  CASE falsy(node) -> FALSE
        [] typeOf(node) \in {"bulletList", "orderedList"} ->
             mapThrows(node) \/ \E k \in 1..Len(kids) : inner(kids[k])
        [] typeOf(node) = "blockquote" ->
             mapThrows(node) \/ \E k \in 1..Len(kids) : blockThrows(kids[k])
        [] typeOf(node) = "table" ->
             \/ mapThrows(node)
             \/ \E r \in 1..Len(kids) :
                  \/ nullish(kids[r])
                  \/ mapThrows(kids[r])
                  \/ \E c \in 1..Len(children(kids[r])) :
                       inner(children(kids[r])[c])
        [] typeOf(node) \in {"rule", "mediaSingle", "mediaGroup"} -> FALSE
        [] OTHER -> inlineThrows(kids)

\* adfThrows that has no guard for a document that is null
adfThrowsOnNull(d) ==
  \/ nullish(d)
  \/ ~noDocument(d) /\ \E k \in 1..Len(d.content) : blockThrows(d.content[k])

adfThrows(d) ==
  ~noDocument(d) /\ \E k \in 1..Len(d.content) : blockThrows(d.content[k])

----------------------------------------------------------------------------
(* createADFDocument of src/index.js, the 1.0.0 converter; its definitions *)
(* carry the suffix V1                                                      *)

\* line.match(/- \[([^\]]+)\|([^\]]+)\] (.+)/) tried at position p
matchIssueLinkAt(line, p) ==
  LET m == matchPipeLink(line, p + 2)
  IN  IF /\ charAt(line, p) = "-"
         /\ charAt(line, p + 1) = " "
         /\ m.alt # 0
         /\ charAt(line, m.end) = " "
         /\ m.end + 1 <= Len(line)
        THEN [ok |-> TRUE, g1 |-> m.g1, g2 |-> m.g2,
              g3 |-> SubSeq(line, m.end + 1, Len(line))]
        ELSE [ok |-> FALSE, g1 |-> <<>>, g2 |-> <<>>, g3 |-> <<>>]

\* the expression is not anchored: the leftmost position that matches
RECURSIVE matchIssueLink(_, _)
matchIssueLink(line, p) ==
  IF p > Len(line) THEN matchIssueLinkAt(line, p)
  ELSE IF matchIssueLinkAt(line, p).ok THEN matchIssueLinkAt(line, p)
  ELSE matchIssueLink(line, p + 1)

\* the loop over /\*([^*]+)\*/g of the bold-paragraph arm, and its tail
RECURSIVE scanStrongV1(_, _)
scanStrongV1(line, lastIndex) ==
  LET find[p \in 1..(Len(line) + 1)] ==
        IF p > Len(line) THEN NoMatch
        ELSE IF matchDelimited(line, p, <<"*">>, 1).alt # 0
          THEN matchDelimited(line, p, <<"*">>, 1)
        ELSE find[p + 1]
      m == IF lastIndex > Len(line) THEN NoMatch ELSE find[lastIndex]
  IN  IF m.alt = 0
        THEN trailingText(line, lastIndex)
        ELSE leadingText(line, lastIndex, m) \o <<matchNode(m)>>
               \o scanStrongV1(line, m.end)

\* the arm of the if-chain that a trimmed, non-empty line takes
lineKindV1(line) ==
  IF startsWith(line, <<"h", "1", ".", " ">>) THEN "h1"
  ELSE IF startsWith(line, <<"h", "2", ".", " ">>) THEN "h2"
  ELSE IF startsWith(line, <<"h", "3", ".", " ">>) THEN "h3"
  ELSE IF startsWith(line, <<"-", " ", "[">>) /\ \E k \in 1..Len(line) : line[k] = "|"
    THEN "issueLink"
  ELSE IF startsWith(line, <<"*", " ">>) THEN "bullet"
  ELSE IF line = <<"-", "-", "-", "-">> THEN "rule"
  ELSE IF line = Fence \/ startsWith(line, Fence) THEN "fence"
  ELSE IF (\E k \in 1..Len(line) : line[k] = "*")
            /\ (\E k \in 1..Len(line) : line[k] = ":")
    THEN "boldParts"
  ELSE IF line[1] = "*" /\ line[Len(line)] = "*" THEN "boldLine"
  ELSE "paragraph"

\* a bullet list of one item: every arm that makes a list pushes a new one
singleItemListV1(inline) ==
  [type |-> "bulletList", content |-> <<listItem(inline)>>]

\* what one line that is not a fence does to nodes
pushLineV1(blocks, line) ==
  LET kind == lineKindV1(line)
      link == matchIssueLink(line, 1)
  IN  CASE kind = "h1" -> Append(blocks, heading(1, <<plainNode(substring(line, 4))>>))
        [] kind = "h2" -> Append(blocks, heading(2, <<plainNode(substring(line, 4))>>))
        [] kind = "h3" -> Append(blocks, heading(3, <<plainNode(substring(line, 4))>>))
        [] kind = "issueLink" ->
             IF link.ok
               THEN Append(blocks, singleItemListV1(
                      <<markedNode(link.g1, linkMark(link.g2)),
                        plainNode(<<" ">> \o link.g3)>>))
               ELSE blocks
        [] kind = "bullet" ->
             Append(blocks, singleItemListV1(<<plainNode(substring(line, 2))>>))
        [] kind = "rule" -> Append(blocks, [type |-> "rule"])
        [] kind = "boldParts" -> Append(blocks, paragraph(scanStrongV1(line, 1)))
        [] kind = "boldLine" ->
             \* line.substring(1, line.length - 1); substring swaps its
             \* arguments when the line is the one character
             Append(blocks, paragraph(<<markedNode(
               IF Len(line) = 1 THEN line ELSE SubSeq(line, 2, Len(line) - 1),
               [type |-> "strong"])>>))
        [] OTHER -> Append(blocks, paragraph(<<plainNode(line)>>))

\* the code block pushed when the capture loop ends
codeBlockV1(captured) ==
  [type |-> "codeBlock", content |-> <<plainNode(join(captured, <<"\n">>))>>]

----------------------------------------------------------------------------
(* Inputs *)

\* the texts made of at most n parts drawn from a set of parts
Concat(parts, n) ==
  {concatMap(f) : f \in UNION {[1..k -> parts] : k \in 0..n}}

MaxLines == 3

\* lines of every kind the block builder tells apart
SampleLines ==
  { <<>>, <<" ">>, <<"a">>, <<" ", "a", " ", "b">>,
    <<"-", " ", "a">>, <<"*", " ", "b">>,
    <<"1", ".", " ", "a">>, <<"2", ".", " ", " ", "b">>,
    <<">", " ", "a">>, <<"-", "-", "-">>,
    <<"#", " ", "a">>, <<"h", "2", ".", " ", "a">>,
    Fence, Fence \o <<"j", "s">>, <<" ">> \o Fence \o <<" ">> }

BlockTexts ==
  {join(f, <<"\n">>) : f \in UNION {[1..k -> SampleLines] : k \in 1..MaxLines}}

MaxTokens == 4

InlineTokens ==
  { <<"*", "*">>, <<"*">>, <<"~", "~">>, <<Backtick>>, <<"a">>, <<" ">>, <<":">> }

InlineTexts == Concat(InlineTokens, MaxTokens)

MaxBody == 5

BracketChars == {"[", "]", "|", ")", "a"}

\* candidates for the link forms: a bracket pair around a body
BracketTexts ==
  {<<"[">> \o b \o <<"]">> : b \in Concat({<<c>> : c \in BracketChars}, MaxBody)}

LinkText == <<"l", "i", "n", "k">>

LinkHref == <<"h", "t", "t", "p", ":", "/", "/", "x">>

MarkdownLink == <<"[">> \o LinkText \o <<"]", "(">> \o LinkHref \o <<")">>

\* single texts: a link inside strong delimiters, the two link forms, a text
\* both link forms match, heading markers at and past level 6, an ordered
\* marker of two digits
SpecimenTexts ==
  { <<"*", "*">> \o MarkdownLink \o <<"*", "*">>,
    MarkdownLink,
    <<"[", "a", "|", "b", "]", "(", "c", ")">>,
    <<"a", " ">> \o MarkdownLink,
    <<"h", "6", ".", " ", "a">>, <<"h", "7", ".", " ", "a">>,
    <<"h", "0", ".", " ", "a">>,
    repeat("#", 6) \o <<" ", "a">>, repeat("#", 7) \o <<" ", "a">>,
    <<"1", "2", ".", " ", "a">>,
    <<"-", "-", "-", "-">>,
    <<"-", " ", "a", "\n", "-", "-", "-", "-", "\n", "-", " ", "b">>,
    <<">", " ", "a", "\n", ">", " ", "b">>,
    <<">", " ", "a", "\n", "\n", ">", " ", "b", "\n", " ", ">", " ", "*", "c", "*">>,
    <<"1", ".", " ", "a", "\n", "1", ".", " ", "b", "\n", "1", ".", " ", "c">> }

Inputs ==
  {Null} \cup {Str(t) : t \in BlockTexts \cup InlineTexts \cup BracketTexts
                              \cup SpecimenTexts}

----------------------------------------------------------------------------
(* One conversion: createADFDocument step by step, then adfToText *)

NoDocument == [type |-> "none"]

\* no tool call is being served
NoRequest == [name |-> "none"]

NoFrame == [at |-> "none"]

NoError == [message |-> "none"]

NoReply == [content |-> "none"]

NoToolCall ==
  /\ request = NoRequest
  /\ env = "production"
  /\ sent = <<>>
  /\ frame = NoFrame
  /\ thrown = NoError
  /\ reply = NoReply

Init ==
  /\ NoToolCall
  /\ content \in Inputs
  /\ heap = <<>>
  /\ calls = <<>>
  /\ lines = <<>>
  /\ i = 1
  /\ nodes = <<>>
  /\ codeLines = <<>>
  /\ lang = <<>>
  /\ pc = "call"
  /\ doc = NoDocument
  /\ out = <<>>

\* entry: the guard for absent input, else the split into lines
Call ==
  /\ pc = "call"
  /\ IF absent(content)
       THEN /\ doc' = document(<<emptyParagraph>>)
            /\ pc' = "parsed"
            /\ UNCHANGED lines
       ELSE /\ lines' = split(content.s)
            /\ pc' = "line"
            /\ UNCHANGED doc
  /\ UNCHANGED <<server, heap, calls, content, i, nodes, codeLines, lang, out>>

\* one pass of the for loop up to the next line, or up to the capture loop
Line ==
  /\ pc = "line"
  /\ i <= Len(lines)
  /\ LET line == trim(lines[i])
     IN  IF line = <<>>
           THEN UNCHANGED <<nodes, codeLines, lang, pc>>
         ELSE IF lineKind(line) = "fence"
           THEN /\ lang' = fenceLang(line)
                /\ codeLines' = <<>>
                /\ pc' = "fence"
                /\ UNCHANGED nodes
         ELSE /\ nodes' = pushLine(nodes, line)
              /\ UNCHANGED <<codeLines, lang, pc>>
  /\ i' = i + 1
  /\ UNCHANGED <<server, heap, calls, content, lines, doc, out>>

\* one pass of the capture loop
Capture ==
  /\ pc = "fence"
  /\ captures(lines, i)
  /\ codeLines' = Append(codeLines, lines[i])
  /\ i' = i + 1
  /\ UNCHANGED <<server, heap, calls, content, lines, nodes, lang, pc, doc, out>>

\* CloseFence without the i++ of the for loop
CloseFenceStays ==
  /\ pc = "fence"
  /\ ~captures(lines, i)
  /\ nodes' = Append(nodes, codeBlock(codeLines, lang))
  /\ pc' = "line"
  /\ UNCHANGED <<server, heap, calls, content, lines, i, codeLines, lang, doc, out>>

\* the capture loop ends: the code block is pushed and the for loop goes on
CloseFence ==
  /\ pc = "fence"
  /\ ~captures(lines, i)
  /\ nodes' = Append(nodes, codeBlock(codeLines, lang))
  /\ i' = i + 1
  /\ pc' = "line"
  /\ UNCHANGED <<server, heap, calls, content, lines, codeLines, lang, doc, out>>

\* the for loop is over
Return ==
  /\ pc = "line"
  /\ i > Len(lines)
  /\ doc' = finish(nodes)
  /\ pc' = "parsed"
  /\ UNCHANGED <<server, heap, calls, content, lines, i, nodes, codeLines, lang, out>>

\* adfToText of the document just built
Render ==
  /\ pc = "parsed"
  /\ out' = adfToText(doc)
  /\ pc' = "rendered"
  /\ UNCHANGED <<server, heap, calls, content, lines, i, nodes, codeLines, lang, doc>>

Next == Call \/ Line \/ Capture \/ CloseFence \/ Return \/ Render

Spec == Init /\ [][Next]_vars

----------------------------------------------------------------------------
(* The same conversion by createADFDocument of src/index.js *)

\* content.split throws a TypeError when content is no string
CallV1 ==
  /\ pc = "call"
  /\ IF content.t # "string"
       THEN pc' = "threw" /\ UNCHANGED lines
       ELSE lines' = split(content.s) /\ pc' = "line"
  /\ UNCHANGED <<server, heap, calls, content, i, nodes, codeLines, lang, doc, out>>

LineV1 ==
  /\ pc = "line"
  /\ i <= Len(lines)
  /\ LET line == trim(lines[i])
     IN  IF line = <<>>
           THEN UNCHANGED <<nodes, codeLines, pc>>
         ELSE IF lineKindV1(line) = "fence"
           THEN /\ codeLines' = <<>>
                /\ pc' = "fence"
                /\ UNCHANGED nodes
         ELSE /\ nodes' = pushLineV1(nodes, line)
              /\ UNCHANGED <<codeLines, pc>>
  /\ i' = i + 1
  /\ UNCHANGED <<server, heap, calls, content, lines, lang, doc, out>>

CloseFenceV1 ==
  /\ pc = "fence"
  /\ ~captures(lines, i)
  /\ nodes' = Append(nodes, codeBlockV1(codeLines))
  /\ i' = i + 1
  /\ pc' = "line"
  /\ UNCHANGED <<server, heap, calls, content, lines, codeLines, lang, doc, out>>

ReturnV1 ==
  /\ pc = "line"
  /\ i > Len(lines)
  /\ doc' = document(nodes)
  /\ pc' = "parsed"
  /\ UNCHANGED <<server, heap, calls, content, lines, i, nodes, codeLines, lang, out>>

NextV1 == CallV1 \/ LineV1 \/ Capture \/ CloseFenceV1 \/ ReturnV1

SpecV1 == Init /\ [][NextV1]_vars

----------------------------------------------------------------------------
(* The read tools: a rich-text field of a backend response goes through    *)
(* adfToText; an error thrown on the way is caught and answered by         *)
(* handleError                                                             *)

MaxMarks == 2

MarkKinds ==
  { [type |-> "strong"], [type |-> "em"], [type |-> "strike"],
    [type |-> "code"], linkMark(LinkHref) }

\* the lists of at most MaxMarks marks, no mark twice
MarkLists ==
  {ms \in UNION {[1..n -> MarkKinds] : n \in 0..MaxMarks} :
     \A j, k \in DOMAIN ms : j # k => ms[j] # ms[k]}

MarkedRuns == {[type |-> "text", text |-> LinkText, marks |-> ms] : ms \in MarkLists}

\* values that are neither a node nor an array
BadValues == {Null, Undefined, Str(<<"a">>), Obj}

BlockTypes ==
  { "paragraph", "heading", "bulletList", "orderedList", "blockquote",
    "codeBlock", "table", "rule", "mediaSingle", "panel" }

TextA == plainNode(<<"a">>)

TextB == plainNode(<<"b">>)

tableCell(blocks) == [type |-> "tableCell", content |-> blocks]

tableRow(cells) == [type |-> "tableRow", content |-> cells]

\* a well-formed entry of the content of a block of a type
goodEntry(type) ==
  CASE type \in {"bulletList", "orderedList"} -> listItem(<<TextA>>)
    [] type = "blockquote" -> paragraph(<<TextA>>)
    [] type = "table" -> tableRow(<<tableCell(<<paragraph(<<TextA>>)>>)>>)
    [] OTHER -> TextA

MaxEntries == 2

\* the content arrays of a block: well-formed, null and malformed entries
entryLists(type) ==
  UNION {[1..n -> BadValues \cup {goodEntry(type)}] : n \in 0..MaxEntries}

\* blocks one level deep: content missing, no array, or an array of entries
ShallowBlocks ==
  {[type |-> t] : t \in BlockTypes}
    \cup {[type |-> t, notArray |-> v] : t \in BlockTypes, v \in BadValues}
    \cup UNION {{[type |-> t, content |-> es] : es \in entryLists(t)} :
                 t \in BlockTypes}

\* the same faults one level further down: in a list item, a row, a cell
DeepBlocks ==
  UNION {
    { [type |-> "bulletList", content |-> <<[type |-> "listItem", notArray |-> v]>>],
      [type |-> "orderedList", content |-> <<[type |-> "listItem", content |-> <<v>>]>>],
      [type |-> "blockquote", content |-> <<[type |-> "paragraph", content |-> <<v>>]>>],
      [type |-> "table", content |-> <<[type |-> "tableRow", notArray |-> v]>>],
      [type |-> "table", content |-> <<tableRow(<<v>>)>>],
      [type |-> "table", content |-> <<tableRow(<<[type |-> "tableCell", notArray |-> v]>>)>>],
      [type |-> "table", content |-> <<tableRow(<<tableCell(<<v>>)>>)>>],
      [type |-> "paragraph",
       content |-> <<[type |-> "text", text |-> <<"a">>, marks |-> <<v>>]>>] } :
    v \in BadValues}

\* blocks of a type the renderer has no case for, and a table of two cells
OtherBlocks ==
  { [type |-> "panel", content |-> <<paragraph(<<TextA>>)>>],
    [type |-> "panel", content |-> <<paragraph(<<TextA>>), paragraph(<<TextB>>)>>],
    [type |-> "expand", content |-> <<heading(2, <<TextA>>)>>],
    [type |-> "panel", content |-> <<TextA, TextB>>],
    [type |-> "table",
     content |-> <<tableRow(<<tableCell(<<paragraph(<<TextA>>)>>),
                             tableCell(<<paragraph(<<TextB>>)>>)>>)>>],
    [type |-> "table",
     content |-> <<tableRow(<<tableCell(<<paragraph(<<TextA>>),
                                         paragraph(<<TextB>>)>>),
                             tableCell(<<>>)>>),
                   tableRow(<<tableCell(<<heading(2, <<TextB>>)>>)>>),
                   tableRow(<<>>)>>] }

GivenBlocks ==
  ShallowBlocks \cup DeepBlocks \cup OtherBlocks
    \cup {paragraph(<<run>>) : run \in MarkedRuns}

\* what a description, comment body or worklog comment of a response can be
GivenDocuments ==
  BadValues \cup {Str(<<>>), [type |-> "doc"], paragraph(<<TextA>>)}
    \cup {[type |-> "doc", notArray |-> v] : v \in BadValues}
    \cup {document(<<b>>) : b \in GivenBlocks \cup BadValues}

InitRead ==
  /\ NoToolCall
  /\ doc \in GivenDocuments
  /\ heap = <<>>
  /\ calls = <<>>
  /\ pc = "received"
  /\ content = Null
  /\ lines = <<>>
  /\ i = 1
  /\ nodes = <<>>
  /\ codeLines = <<>>
  /\ lang = <<>>
  /\ out = <<>>

\* one field through adfToText inside the try block of the handler
surface(field, done) ==
  IF adfThrows(field)
    THEN pc' = "failed" /\ UNCHANGED out
    ELSE pc' = done /\ out' = adfToText(field)

\* jira_get_issue: the description of the issue
GetIssue ==
  /\ pc = "received"
  /\ surface(doc, "issue")
  /\ UNCHANGED <<server, heap, calls, content, lines, i, nodes, codeLines, lang, doc>>

\* jira_get_comments, for a response of one comment: its body
GetComments ==
  /\ pc = "received"
  /\ surface(doc, "comments")
  /\ UNCHANGED <<server, heap, calls, content, lines, i, nodes, codeLines, lang, doc>>

\* jira_get_worklogs, for a response of one worklog: its comment
GetWorklogs ==
  /\ pc = "received"
  /\ surface(doc, "worklogs")
  /\ UNCHANGED <<server, heap, calls, content, lines, i, nodes, codeLines, lang, doc>>

NextRead == GetIssue \/ GetComments \/ GetWorklogs

SpecRead == InitRead /\ [][NextRead]_vars

----------------------------------------------------------------------------
(* A run of conversion calls in one process.  The arrays of blocks live in  *)
(* heap, one entry per array; a document holds the address of its array,   *)
(* since createADFDocument returns nodes itself as the content of the      *)
(* document.  calls records every call with its input and what it returned *)

MaxCalls == 3

CallInputs ==
  { Null, Str(<<>>), Str(<<"a">>), Str(<<"-", " ", "a">>),
    Str(<<"-", " ", "a", "\n", "-", " ", "b">>),
    Str(<<"1", ".", " ", "a">>), Str(<<"*", "*", "a", "*", "*">>),
    Str(Fence \o <<"\n", "a">>) }

\* allocate that hands out the array of the call before
allocatePooled(h) == IF h = <<>> THEN 1 ELSE Len(h)

\* const nodes = [] : the address of a new array
allocate(h) == Len(h) + 1

\* what the array at an address holds when a call starts to push to it
held(h, a) == IF a \in 1..Len(h) THEN h[a] ELSE <<>>

\* the heap once the array at an address holds blocks
store(h, a, blocks) ==
  IF a \in 1..Len(h) THEN [h EXCEPT ![a] = blocks] ELSE Append(h, blocks)

InitCalls ==
  /\ NoToolCall
  /\ heap = <<>>
  /\ calls = <<>>
  /\ pc = "idle"
  /\ content = Null
  /\ lines = <<>>
  /\ i = 1
  /\ nodes = <<>>
  /\ codeLines = <<>>
  /\ lang = <<>>
  /\ doc = NoDocument
  /\ out = <<>>

\* a caller enters createADFDocument: the locals of the call are new, and
\* nodes is the array at the address the call allocates
Enter ==
  /\ pc = "idle"
  /\ Len(calls) < MaxCalls
  /\ content' \in CallInputs
  /\ nodes' = held(heap, allocate(heap))
  /\ lines' = <<>>
  /\ i' = 1
  /\ codeLines' = <<>>
  /\ lang' = <<>>
  /\ doc' = NoDocument
  /\ pc' = "call"
  /\ UNCHANGED <<server, heap, calls, out>>

\* the caller receives the document: its content is the array nodes itself,
\* or the array of the literal that answers absent input
Exit ==
  /\ pc = "parsed"
  /\ LET a == IF absent(content) THEN Len(heap) + 1 ELSE allocate(heap)
     IN  /\ heap' = store(heap, a, doc.content)
         /\ calls' = Append(calls, [op |-> "parse", input |-> content,
                                    ref |-> a, result |-> doc])
  /\ pc' = "idle"
  /\ UNCHANGED <<server, content, lines, i, nodes, codeLines, lang, doc, out>>

\* one call of adfToText on a document an earlier call returned
RenderCall ==
  /\ pc = "idle"
  /\ Len(calls) < MaxCalls
  /\ \E k \in 1..Len(calls) :
       /\ calls[k].op = "parse"
       /\ LET tree == document(heap[calls[k].ref])
          IN  calls' = Append(calls, [op |-> "render", input |-> tree,
                                     ref |-> calls[k].ref,
                                     result |-> Str(adfToText(tree))])
  /\ UNCHANGED <<server, heap, content, lines, i, nodes, codeLines, lang, pc, doc, out>>

NextCalls ==
  Enter \/ Call \/ Line \/ Capture \/ CloseFence \/ Return \/ Exit \/ RenderCall

SpecCalls == InitCalls /\ [][NextCalls]_vars

----------------------------------------------------------------------------
(* parseInlineContent on its own: one call with a text, null or undefined  *)

TokenizerInputs ==
  {Null, Undefined} \cup {Str(t) : t \in InlineTexts \cup SpecimenTexts}

InitTokens ==
  /\ NoToolCall
  /\ content \in TokenizerInputs
  /\ pc = "text"
  /\ heap = <<>>
  /\ calls = <<>>
  /\ lines = <<>>
  /\ i = 1
  /\ nodes = <<>>
  /\ codeLines = <<>>
  /\ lang = <<>>
  /\ doc = NoDocument
  /\ out = <<>>

\* the call: if (!text) return [], else the scan
Tokenize ==
  /\ pc = "text"
  /\ nodes' = IF absent(content) THEN <<>> ELSE parseInlineContent(content.s)
  /\ pc' = "tokens"
  /\ UNCHANGED <<server, heap, calls, content, lines, i, codeLines, lang, doc, out>>

NextTokens == Tokenize

SpecTokens == InitTokens /\ [][NextTokens]_vars

----------------------------------------------------------------------------
(* createADFDocument alone, on texts of blank lines, block lines and fence *)
(* lines, each step of the loops taken in the end                          *)

MaxLoopLines == 3

LoopLines ==
  { <<>>, <<"a">>, <<"-", " ", "a">>, Fence, Fence \o <<"j", "s">>,
    <<" ">> \o Fence \o <<" ">> }

LoopTexts ==
  {join(f, <<"\n">>) : f \in UNION {[1..k -> LoopLines] : k \in 1..MaxLoopLines}}

InitLoop ==
  /\ NoToolCall
  /\ content \in {Str(t) : t \in LoopTexts}
  /\ heap = <<>>
  /\ calls = <<>>
  /\ lines = <<>>
  /\ i = 1
  /\ nodes = <<>>
  /\ codeLines = <<>>
  /\ lang = <<>>
  /\ pc = "call"
  /\ doc = NoDocument
  /\ out = <<>>

NextLoop == Call \/ Line \/ Capture \/ CloseFence \/ Return

SpecLoop == InitLoop /\ [][NextLoop]_vars /\ WF_vars(NextLoop)

----------------------------------------------------------------------------
(* The tool handler: argument values, validators, results *)

\* a number n + frac/10, frac 0 for an integer
Num(n) == [t |-> "number", n |-> n, frac |-> 0]

Frac(n) == [t |-> "number", n |-> n, frac |-> 5]

\* an array of values
Arr(a) == [t |-> "array", a |-> a]

isNumber(v) == v.t = "number"

\* the truth value of v in a condition
truthy(v) ==
  CASE v.t = "string" -> v.s # <<>>
    [] v.t = "number" -> ~(v.n = 0 /\ v.frac = 0)
    [] v.t \in {"object", "array"} -> TRUE
    [] OTHER -> FALSE

\* a destructuring default: it replaces undefined only
orDefault(v, d) == IF v = Undefined THEN d ELSE v

UpperCase ==
  {"A", "B", "C", "D", "E", "F", "G", "H", "I", "J", "K", "L", "M",
   "N", "O", "P", "Q", "R", "S", "T", "U", "V", "W", "X", "Y", "Z"}

\* the validators give the message of the error they throw, NoThrow if none
NoThrow == "no error"

\* /^[A-Z]+-\d+$/
issueKeyFormat(s) ==
  \E k \in 2..(Len(s) - 1) :
    /\ s[k] = "-"
    /\ \A p \in 1..(k - 1) : s[p] \in UpperCase
    /\ \A p \in (k + 1)..Len(s) : s[p] \in Digits

validateIssueKey(key) ==
  IF ~truthy(key) \/ ~isString(key)
    THEN "Invalid issue key: must be a string"
    ELSE IF ~issueKeyFormat(key.s)
      THEN "Invalid issue key format"
      ELSE NoThrow

\* /^[A-Z][A-Z0-9_]{1,9}$/
projectKeyFormat(s) ==
  /\ Len(s) \in 2..10
  /\ s[1] \in UpperCase
  /\ \A p \in 2..Len(s) : s[p] \in UpperCase \cup Digits \cup {"_"}

validateProjectKey(key) ==
  IF ~truthy(key) \/ ~isString(key)
    THEN "Invalid project key: must be a string"
    ELSE IF ~projectKeyFormat(key.s)
      THEN "Invalid project key format"
      ELSE NoThrow

validateJQL(jql) ==
  IF ~truthy(jql) \/ ~isString(jql)
    THEN "Invalid JQL query: must be a string"
    ELSE IF Len(jql.s) > 5000
      THEN "JQL query too long: maximum 5000 characters"
      ELSE NoThrow

sanitizeString(str, maxLength) ==
  IF ~truthy(str) \/ ~isString(str)
    THEN "Invalid input: must be a string"
    ELSE IF Len(str.s) > maxLength
      THEN "input exceeds maximum length"
      ELSE NoThrow

validateSafeParam(str, maxLength) ==
  IF ~truthy(str) \/ ~isString(str)
    THEN "Invalid parameter: must be a non-empty string"
    ELSE IF Len(str.s) > maxLength
      THEN "parameter exceeds maximum length"
      ELSE IF \E p \in 1..Len(str.s) : str.s[p] \in {"/", "\\"}
        THEN "Invalid parameter: contains unsafe characters"
        ELSE NoThrow

validateMaxResults(maxResults) ==
  IF ~isNumber(maxResults) \/ maxResults.frac # 0 \/ maxResults.n < 1
    THEN "maxResults must be a positive integer"
    ELSE NoThrow

validateStoryPoints(points) ==
  IF \/ ~isNumber(points)
     \/ points.n < 0
     \/ points.n > 1000
     \/ (points.n = 1000 /\ points.frac > 0)
    THEN "Story points must be a number between 0 and 1000"
    ELSE NoThrow

validateLabels(labels) ==
  IF labels.t # "array"
    THEN "Labels must be an array"
    ELSE IF \E k \in 1..Len(labels.a) : ~isString(labels.a[k])
      THEN "Label must be a string"
      ELSE IF \E k \in 1..Len(labels.a) : Len(labels.a[k].s) > 255
        THEN "Label exceeds maximum length of 255 characters"
        ELSE NoThrow

\* the first error of the checks in the order the handler runs them
RECURSIVE firstThrow(_)
firstThrow(checks) ==
  IF checks = <<>> THEN NoThrow
  ELSE IF Head(checks) # NoThrow THEN Head(checks)
  ELSE firstThrow(Tail(checks))

\* JSON.stringify leaves out a field whose value is undefined; of the fields
\* the handler writes, only details can be
stringify(obj) ==
  [f \in {g \in DOMAIN obj : g # "details" \/ obj[g] # Undefined} |-> obj[f]]

createSuccessResponse(data) == [content |-> stringify(data)]

\* an error: message, and data for error.response?.data when the backend
\* has answered; errors is the set of the fields of data.errors
hasJiraErrors(error) ==
  /\ "data" \in DOMAIN error
  /\ "errorMessages" \in DOMAIN error.data
  /\ Len(error.data.errorMessages) > 0

hasFieldErrors(error) ==
  /\ "data" \in DOMAIN error
  /\ "errors" \in DOMAIN error.data
  /\ Cardinality(error.data.errors) > 0

errorMessage(error) ==
  IF error.message = "" THEN "An unexpected error occurred" ELSE error.message

handleError(error) ==
  [content |->
     stringify([error |-> "Operation failed", message |-> errorMessage(error)]
               @@ (IF hasJiraErrors(error)
                     THEN [jiraErrors |-> error.data.errorMessages] ELSE <<>>)
               @@ (IF hasFieldErrors(error)
                     THEN [fieldErrors |-> error.data.errors] ELSE <<>>)
               @@ (IF env = "development"
                     THEN [stack |-> "stack"] ELSE <<>>)),
   isError |-> TRUE]

\* handleError of src/index.js
handleErrorV1(error) ==
  [content |->
     stringify([error |-> "Operation failed", message |-> errorMessage(error)]
               @@ (IF env = "development"
                     THEN [details |-> IF "data" \in DOMAIN error
                                         THEN error.data ELSE Undefined,
                           stack |-> "stack"]
                     ELSE <<>>)),
   isError |-> TRUE]

----------------------------------------------------------------------------
(* The tool handler as a state machine: a call runs up to its first await, *)
(* the backend resolves or rejects the request, the call goes on to the    *)
(* next await or to its result. Answers of the backend are well formed.    *)

converter == <<content, lines, i, nodes, codeLines, lang, doc, out, heap, calls>>

\* argument values of the calls
IssueKeyValues ==
  {Undefined, Str(<<"A", "B", "-", "1">>), Str(<<"a", "b", "-", "1">>), Num(1)}

ProjectKeyValues == {Undefined, Str(<<"A", "B">>), Str(<<"a", "/", "b">>)}

SummaryValues == {Undefined, Str(<<"s">>), Str([k \in 1..501 |-> "s"])}

DescriptionValues == {Undefined, Str(<<"d">>), Num(1)}

StatusValues == {Undefined, Str(<<"D">>)}

SafeValues == {Undefined, Str(<<"B">>), Str(<<"a", "/", "b">>)}

LabelsValues ==
  {Undefined, Arr(<<Str(<<"x">>)>>), Arr(<<Num(1)>>), Str(<<"x">>)}

StoryPointValues ==
  {Undefined, Null, Num(5), Num(0), Num(-1), Frac(1000)}

MaxResultsValues == {Undefined, Num(10), Num(0), Frac(1), Str(<<"1">>)}

JQLValues == {Undefined, Str(<<"x">>), Str([k \in 1..5001 |-> "x"])}

ToolCalls ==
  {[name |-> "jira_create_issue",
    args |-> [summary |-> s, description |-> d, issueType |-> t,
              priority |-> p, labels |-> l, storyPoints |-> n,
              projectKey |-> k]] :
     s \in SummaryValues, d \in DescriptionValues, t \in SafeValues,
     p \in {Undefined, Str(<<"a", "\\", "b">>)}, l \in LabelsValues,
     n \in StoryPointValues, k \in ProjectKeyValues}
  \cup
  {[name |-> "jira_search_issues", args |-> [jql |-> q, maxResults |-> m]] :
     q \in JQLValues, m \in MaxResultsValues}
  \cup
  {[name |-> "jira_update_issue",
    args |-> [issueKey |-> k, summary |-> s, description |-> d,
              status |-> st]] :
     k \in IssueKeyValues, s \in SummaryValues, d \in DescriptionValues,
     st \in StatusValues}
  \cup
  {[name |-> "jira_get_project_info", args |-> [projectKey |-> k]] :
     k \in ProjectKeyValues}
  \cup
  {[name |-> "jira_delete_issue", args |-> [issueKey |-> k]] :
     k \in IssueKeyValues}
  \cup
  {[name |-> "jira_unknown", args |-> [issueKey |-> Undefined]]}

NodeEnvs == {"development", "production"}

\* what a rejected request throws
Failures ==
  {[message |-> "timeout of 30000ms exceeded"],
   [message |-> "Request failed with status code 404",
    data |-> [errorMessages |-> <<"Issue does not exist">>, errors |-> {}]],
   [message |-> "Request failed with status code 400",
    data |-> [errorMessages |-> <<>>, errors |-> {"summary"}]],
   [message |-> "Request failed with status code 400",
    data |-> [errorMessages |-> <<"Bad request">>, errors |-> {"labels"}]],
   [message |-> "Request failed with status code 502",
    data |-> [html |-> "Bad Gateway"]]}

\* the names of the transitions the backend lists
TransitionLists == {<<>>, <<<<"D">>>>, <<<<"T">>>>, <<<<"T">>, <<"D">>>>}

Task == Str(<<"T", "a", "s", "k">>)

Medium == Str(<<"M", "e", "d", "i", "u", "m">>)

JIRA_PROJECT_KEY == Str(<<"P", "R", "O", "J">>)

InitTools ==
  /\ request \in ToolCalls
  /\ env \in NodeEnvs
  /\ sent = <<>>
  /\ frame = NoFrame
  /\ thrown = NoError
  /\ reply = NoReply
  /\ pc = "request"
  /\ content = Null
  /\ lines = <<>>
  /\ i = 1
  /\ nodes = <<>>
  /\ codeLines = <<>>
  /\ lang = <<>>
  /\ doc = NoDocument
  /\ out = <<>>
  /\ heap = <<>>
  /\ calls = <<>>

\* catch (error) { return handleError(error) }
Throw(error) ==
  /\ thrown' = error
  /\ reply' = handleError(error)
  /\ pc' = "answered"
  /\ UNCHANGED <<request, env, sent, frame, converter>>

\* return createSuccessResponse(data), the locals as they are at the return
ReturnedFrom(data, locals) ==
  /\ reply' = createSuccessResponse(data)
  /\ frame' = locals
  /\ pc' = "answered"
  /\ UNCHANGED <<request, env, sent, thrown, converter>>

Returned(data) == ReturnedFrom(data, frame)

\* await jiraApi.<method>(path, ...), the locals kept in the frame
Awaited(method, path, locals) ==
  /\ sent' = Append(sent, [method |-> method, path |-> path])
  /\ frame' = locals
  /\ pc' = "awaiting"
  /\ UNCHANGED <<request, env, thrown, reply, converter>>

CreateIssue ==
  /\ pc = "request"
  /\ request.name = "jira_create_issue"
  /\ LET a == request.args
         e == firstThrow(<<
                IF truthy(a.projectKey)
                  THEN validateProjectKey(a.projectKey) ELSE NoThrow,
                validateSafeParam(orDefault(a.issueType, Task), 100),
                validateSafeParam(orDefault(a.priority, Medium), 100),
                validateLabels(orDefault(a.labels, Arr(<<>>))),
                sanitizeString(a.summary, 500),
                IF ~nullish(a.storyPoints)
                  THEN validateStoryPoints(a.storyPoints) ELSE NoThrow>>)
     IN IF e # NoThrow
          THEN Throw([message |-> e])
          ELSE Awaited("post", "/issue", [at |-> "single"])

SearchIssues ==
  /\ pc = "request"
  /\ request.name = "jira_search_issues"
  /\ LET a == request.args
         e == firstThrow(<<
                validateJQL(a.jql),
                validateMaxResults(orDefault(a.maxResults, Num(50)))>>)
     IN IF e # NoThrow
          THEN Throw([message |-> e])
          ELSE Awaited("post", "/search", [at |-> "single"])

GetProjectInfo ==
  /\ pc = "request"
  /\ request.name = "jira_get_project_info"
  /\ LET e == validateProjectKey(
                orDefault(request.args.projectKey, JIRA_PROJECT_KEY))
     IN IF e # NoThrow
          THEN Throw([message |-> e])
          ELSE Awaited("get", "/project/{key}", [at |-> "single"])

DeleteIssue ==
  /\ pc = "request"
  /\ request.name = "jira_delete_issue"
  /\ LET e == validateIssueKey(request.args.issueKey)
     IN IF e # NoThrow
          THEN Throw([message |-> e])
          ELSE Awaited("delete", "/issue/{key}", [at |-> "single"])

\* default: throw new Error
UnknownTool ==
  /\ pc = "request"
  /\ request.name \notin
       {"jira_create_issue", "jira_search_issues", "jira_update_issue",
        "jira_get_project_info", "jira_delete_issue"}
  /\ Throw([message |-> "Unknown tool"])

\* the result of jira_update_issue after its requests
updateResult(warnings) ==
  [success |-> warnings = <<>>,
   message |-> IF warnings # <<>> THEN "Issue updated with warnings"
                                  ELSE "Issue updated successfully",
   url |-> "/browse/{key}"]
  @@ (IF warnings # <<>> THEN [warnings |-> warnings] ELSE <<>>)

\* jira_update_issue up to its first await
UpdateIssue ==
  /\ pc = "request"
  /\ request.name = "jira_update_issue"
  /\ LET a == request.args
         e == firstThrow(<<
                validateIssueKey(a.issueKey),
                IF truthy(a.summary)
                  THEN sanitizeString(a.summary, 500) ELSE NoThrow>>)
         hasFieldUpdates == truthy(a.summary) \/ truthy(a.description)
         locals == [hasFieldUpdates |-> hasFieldUpdates, warnings |-> <<>>]
     IN IF e # NoThrow
          THEN Throw([message |-> e])
          ELSE IF hasFieldUpdates
            THEN Awaited("put", "/issue/{key}", [at |-> "put"] @@ locals)
            ELSE IF truthy(a.status)
              THEN Awaited("get", "/issue/{key}/transitions",
                           [at |-> "transitions"] @@ locals)
              ELSE Returned([success |-> FALSE,
                             message |-> "No updates provided"])

\* the put has resolved
FieldsUpdated ==
  /\ pc = "awaiting"
  /\ frame.at = "put"
  /\ IF truthy(request.args.status)
       THEN Awaited("get", "/issue/{key}/transitions",
                    [frame EXCEPT !.at = "transitions"])
       ELSE Returned(updateResult(frame.warnings))

\* the read of the transitions has resolved
TransitionsRead ==
  /\ pc = "awaiting"
  /\ frame.at = "transitions"
  /\ \E names \in TransitionLists :
       LET status == request.args.status
           found == \E k \in 1..Len(names) : Str(names[k]) = status
           warning == [notFound |-> status,
                       available |-> join(names, <<",", " ">>)]
       IN IF found
            THEN Awaited("post", "/issue/{key}/transitions",
                         [transitions |-> names]
                           @@ [frame EXCEPT !.at = "transition"])
            ELSE ReturnedFrom(
                   updateResult(Append(frame.warnings, warning)),
                   [transitions |-> names] @@ frame)

\* the transition has resolved
Transitioned ==
  /\ pc = "awaiting"
  /\ frame.at = "transition"
  /\ Returned(updateResult(frame.warnings))

\* the request of a tool with one request has resolved
Resolved ==
  /\ pc = "awaiting"
  /\ frame.at = "single"
  /\ Returned([success |-> TRUE, message |-> request.name])

\* a request is rejected
Rejected ==
  /\ pc = "awaiting"
  /\ \E error \in Failures : Throw(error)

NextTools ==
  \/ CreateIssue
  \/ SearchIssues
  \/ GetProjectInfo
  \/ DeleteIssue
  \/ UnknownTool
  \/ UpdateIssue
  \/ FieldsUpdated
  \/ TransitionsRead
  \/ Transitioned
  \/ Resolved
  \/ Rejected

SpecTools == InitTools /\ [][NextTools]_vars

----------------------------------------------------------------------------
(* The tool handler of src/index.js *)

ThrowV1(error) ==
  /\ thrown' = error
  /\ reply' = handleErrorV1(error)
  /\ pc' = "answered"
  /\ UNCHANGED <<request, env, sent, frame, converter>>

\* createADFDocument of src/index.js on a value that is no string
splitThrowsV1(value) ==
  IF value.t # "string" THEN "content.split is not a function" ELSE NoThrow

CreateIssueV1 ==
  /\ pc = "request"
  /\ request.name = "jira_create_issue"
  /\ LET a == request.args
         e == firstThrow(<<sanitizeString(a.summary, 500),
                           splitThrowsV1(a.description)>>)
     IN IF e # NoThrow
          THEN ThrowV1([message |-> e])
          ELSE Awaited("post", "/issue", [at |-> "single"])

SearchIssuesV1 ==
  /\ pc = "request"
  /\ request.name = "jira_search_issues"
  /\ LET e == validateJQL(request.args.jql)
     IN IF e # NoThrow
          THEN ThrowV1([message |-> e])
          ELSE Awaited("get", "/search/jql", [at |-> "single"])

GetProjectInfoV1 ==
  /\ pc = "request"
  /\ request.name = "jira_get_project_info"
  /\ Awaited("get", "/project/{key}", [at |-> "single"])

DeleteIssueV1 ==
  /\ pc = "request"
  /\ request.name = "jira_delete_issue"
  /\ LET e == validateIssueKey(request.args.issueKey)
     IN IF e # NoThrow
          THEN ThrowV1([message |-> e])
          ELSE Awaited("delete", "/issue/{key}", [at |-> "single"])

UnknownToolV1 ==
  /\ pc = "request"
  /\ request.name \notin
       {"jira_create_issue", "jira_search_issues", "jira_update_issue",
        "jira_get_project_info", "jira_delete_issue"}
  /\ ThrowV1([message |-> "Unknown tool"])

updateResultV1 ==
  [success |-> TRUE,
   message |-> "Issue updated successfully",
   url |-> "/browse/{key}"]

\* jira_update_issue up to its first await: the put is always sent
UpdateIssueV1 ==
  /\ pc = "request"
  /\ request.name = "jira_update_issue"
  /\ LET a == request.args
         e == firstThrow(<<
                validateIssueKey(a.issueKey),
                IF truthy(a.summary)
                  THEN sanitizeString(a.summary, 500) ELSE NoThrow,
                IF truthy(a.description)
                  THEN splitThrowsV1(a.description) ELSE NoThrow>>)
     IN IF e # NoThrow
          THEN ThrowV1([message |-> e])
          ELSE Awaited("put", "/issue/{key}", [at |-> "put"])

FieldsUpdatedV1 ==
  /\ pc = "awaiting"
  /\ frame.at = "put"
  /\ IF truthy(request.args.status)
       THEN Awaited("get", "/issue/{key}/transitions", [at |-> "transitions"])
       ELSE Returned(updateResultV1)

\* no transition of the name: nothing is sent and nothing is said
TransitionsReadV1 ==
  /\ pc = "awaiting"
  /\ frame.at = "transitions"
  /\ \E names \in TransitionLists :
       IF \E k \in 1..Len(names) : Str(names[k]) = request.args.status
         THEN Awaited("post", "/issue/{key}/transitions",
                      [at |-> "transition", transitions |-> names])
         ELSE ReturnedFrom(updateResultV1,
                           [at |-> "transitions", transitions |-> names])

TransitionedV1 ==
  /\ pc = "awaiting"
  /\ frame.at = "transition"
  /\ Returned(updateResultV1)

RejectedV1 ==
  /\ pc = "awaiting"
  /\ \E error \in Failures : ThrowV1(error)

NextToolsV1 ==
  \/ CreateIssueV1
  \/ SearchIssuesV1
  \/ GetProjectInfoV1
  \/ DeleteIssueV1
  \/ UnknownToolV1
  \/ UpdateIssueV1
  \/ FieldsUpdatedV1
  \/ TransitionsReadV1
  \/ TransitionedV1
  \/ Resolved
  \/ RejectedV1

SpecToolsV1 == InitTools /\ [][NextToolsV1]_vars

----------------------------------------------------------------------------
(* Claims C1..C10 *)

\* the input of the conversion is a string
IsText == content.t = "string"

\* the conversion has ended, by a return or by a throw
Ended == pc \in {"parsed", "rendered", "threw"}

\* C1: for every input text x, rendering the document of x and converting
\* the result again is stable: render(parse(render(parse(x)))) equals
\* render(parse(x)).
C1_StableAfterOnePass ==
  pc = "rendered" => adfToText(createADFDocument(Str(out))) = out

\* C2: every document D that createADFDocument returns comes back from its
\* own rendering: parse(render(D)) is structurally equal to D.
C2_RoundTrip ==
  pc = "rendered" => createADFDocument(Str(out)) = doc

\* letters, spaces and line ends: the characters that are no marker
C3_PlainChars == {"a", "b", " ", "\n"}

C3_NoMarkers(s) == \A k \in 1..Len(s) : s[k] \in C3_PlainChars

C3_NoBlankLines(s) == \A k \in 1..Len(split(s)) : trim(split(s)[k]) # <<>>

\* exactly one block, a paragraph, and the rendering is the input
C3_OneParagraph ==
  /\ Len(doc.content) = 1
  /\ doc.content[1].type = "paragraph"
  /\ out = content.s

\* C3 as stated: every string with no blank lines and no special markers
\* parses to exactly one paragraph whose rendering is the string.
C3_Original ==
  (pc = "rendered" /\ IsText /\ C3_NoMarkers(content.s)
     /\ C3_NoBlankLines(content.s))
    => C3_OneParagraph

\* C3 as amended: every non-empty string of one line, with no whitespace
\* at its ends and no special markers, parses to exactly one paragraph, of
\* one unmarked text run, whose rendering is the string.
C3_PlainLine ==
  (pc = "rendered" /\ IsText /\ C3_NoMarkers(content.s)
     /\ content.s # <<>> /\ Len(split(content.s)) = 1
     /\ trim(content.s) = content.s)
    => /\ C3_OneParagraph
       /\ doc.content[1].content = <<plainNode(content.s)>>

C3_Witness ==
  /\ pc = "rendered" /\ IsText /\ C3_NoMarkers(content.s)
  /\ Len(split(content.s)) = 1 /\ trim(content.s) = content.s
  /\ Len(content.s) >= 3
  /\ out = content.s

\* C4: for every input string createADFDocument returns, without throwing,
\* a document whose root has type doc, version 1 and at least one block.
C4_ParseTotal ==
  (Ended /\ IsText)
    => /\ pc # "threw"
       /\ doc.type = "doc"
       /\ doc.version = 1
       /\ Len(doc.content) >= 1

\* the input is absent, empty or made of blank lines only
C5_Blank ==
  \/ ~IsText
  \/ \A k \in 1..Len(split(content.s)) : trim(split(content.s)[k]) = <<>>

\* C5: the empty string, null and any input of blank or whitespace-only
\* lines give a document of exactly one block, a paragraph with no content.
C5_EmptyInput ==
  (Ended /\ C5_Blank)
    => /\ pc # "threw"
       /\ doc.content = <<[type |-> "paragraph", content |-> <<>>]>>

\* a line that carries a bullet marker once trimmed
C6_IsBullet(l) ==
  startsWith(trim(l), <<"*", " ">>) \/ startsWith(trim(l), <<"-", " ">>)

\* the lines that are not blank
C6_NonBlank(ls) == SelectSeq(ls, LAMBDA l : trim(l) # <<>>)

\* C6: bullet-marker lines with nothing but blank lines between them land
\* in one bulletList node, one item per line, in source order.
C6_BulletRun ==
  LET ls == C6_NonBlank(split(content.s))
  IN  (pc = "parsed" /\ IsText /\ Len(ls) >= 1
         /\ \A k \in 1..Len(ls) : C6_IsBullet(ls[k]))
        => /\ Len(doc.content) = 1
           /\ doc.content[1].type = "bulletList"
           /\ Len(doc.content[1].content) = Len(ls)
           /\ \A k \in 1..Len(ls) :
                blockNodeToText(doc.content[1].content[k].content[1])
                  = substring(trim(ls[k]), 2)

\* the blocks of one list kind
C7_Lists(blocks, kind) == SelectSeq(blocks, LAMBDA b : b.type = kind)

\* the for loop is at a line of this kind
C7_At(kind) ==
  /\ pc = "line" /\ i <= Len(lines)
  /\ trim(lines[i]) # <<>>
  /\ lineKind(trim(lines[i])) = kind

\* C7: list runs never merge across kinds.  A step over an ordered-marker
\* line leaves every bulletList as it was and, when the last block is a
\* bulletList, appends a new orderedList of one item; the same with the two
\* kinds exchanged.
C7_NoCrossKindMerge ==
  [][ /\ C7_At("ordered") =>
           /\ C7_Lists(nodes', "bulletList") = C7_Lists(nodes, "bulletList")
           /\ lastIs(nodes, "bulletList") =>
                /\ Len(nodes') = Len(nodes) + 1
                /\ nodes'[Len(nodes')].type = "orderedList"
                /\ Len(nodes'[Len(nodes')].content) = 1
      /\ C7_At("bullet") =>
           /\ C7_Lists(nodes', "orderedList") = C7_Lists(nodes, "orderedList")
           /\ lastIs(nodes, "orderedList") =>
                /\ Len(nodes') = Len(nodes) + 1
                /\ nodes'[Len(nodes')].type = "bulletList"
                /\ Len(nodes'[Len(nodes')].content) = 1 ]_vars

\* a bullet line directly followed by an ordered line has been converted
C7_Witness ==
  /\ pc = "parsed"
  /\ Len(doc.content) = 2
  /\ doc.content[1].type = "bulletList"
  /\ doc.content[2].type = "orderedList"
  /\ Len(lines) = 2

\* the lines after the first that the fence of the first line captures
C8_Body(ls) ==
  LET n == CHOOSE m \in 0..Len(ls) :
             /\ \A j \in 2..(m + 1) : j <= Len(ls) /\ trim(ls[j]) # Fence
             /\ m + 2 <= Len(ls) => trim(ls[m + 2]) = Fence
  IN  SubSeq(ls, 2, n + 1)

\* C8: a fence-open line followed by body lines gives exactly one codeBlock
\* whose language is the tag after the backticks (no attribute without a
\* tag) and whose text is the body lines joined by newline (no text field
\* for an empty body); without a closing fence the body is all that follows.
C8_FenceCapture ==
  LET ls   == split(content.s)
      tag  == trim(substring(trim(ls[1]), 3))
      body == join(C8_Body(ls), <<"\n">>)
      b    == doc.content[1]
  IN  (pc = "parsed" /\ IsText /\ startsWith(trim(ls[1]), Fence))
        => /\ Len(doc.content) >= 1
           /\ b.type = "codeBlock"
           /\ IF tag # <<>>
                THEN "attrs" \in DOMAIN b /\ b.attrs = [language |-> tag]
                ELSE "attrs" \notin DOMAIN b
           /\ IF body # <<>>
                THEN "content" \in DOMAIN b /\ b.content = <<plainNode(body)>>
                ELSE "content" \notin DOMAIN b

\* a step of the open fence takes lines[i] verbatim and classifies nothing
C9_TakesLine ==
  /\ codeLines' = Append(codeLines, lines[i])
  /\ nodes' = nodes
  /\ pc' = "fence"
  /\ i' = i + 1

\* a step of the open fence ends the capture with one code block
C9_Ends ==
  /\ pc' = "line"
  /\ Len(nodes') = Len(nodes) + 1
  /\ SubSeq(nodes', 1, Len(nodes)) = nodes
  /\ nodes'[Len(nodes')].type = "codeBlock"
  /\ inlineNodesToText(children(nodes'[Len(nodes')])) = join(codeLines, <<"\n">>)

\* C9 as stated: while a fence is open every following line is captured
\* verbatim, and the capture ends only at a line that is exactly three
\* backticks, or at the end of the input.
C9_Original ==
  [][ pc = "fence" =>
        IF i <= Len(lines) /\ lines[i] # Fence THEN C9_TakesLine ELSE C9_Ends
    ]_vars

\* C9 as amended: while a fence is open every following line is captured
\* verbatim, and the capture ends only at a line that is three backticks
\* once the whitespace at its ends is removed, or at the end of the input.
C9_FenceVerbatim ==
  [][ pc = "fence" =>
        IF i <= Len(lines) /\ trim(lines[i]) # Fence
          THEN C9_TakesLine
          ELSE C9_Ends
    ]_vars

\* an open fence holds a line, untrimmed, that outside a fence is a list
\* item, and the line it is at closes it with whitespace around the fence
C9_Witness ==
  /\ pc = "fence"
  /\ \E k \in 1..Len(codeLines) : lineKind(trim(codeLines[k])) = "bullet"
  /\ i <= Len(lines) /\ lines[i] # Fence /\ trim(lines[i]) = Fence

\* for each node of scanInline(text, lastIndex), whether the pipe form of
\* the link made it
RECURSIVE C10_PipeForm(_, _)
C10_PipeForm(text, lastIndex) ==
  LET m == exec(text, lastIndex)
  IN  IF m.alt = 0
        THEN IF lastIndex <= Len(text) THEN <<FALSE>> ELSE <<>>
        ELSE (IF m.index > lastIndex THEN <<FALSE>> ELSE <<>>)
               \o <<m.alt = 5>> \o C10_PipeForm(text, m.end)

\* the characters of the line that a node stands for: its text inside its
\* delimiters, with the link target
C10_Source(node, pipe) ==
  IF pipe
    THEN <<"[">> \o node.text \o <<"|">> \o node.marks[1].attrs.href \o <<"]">>
    ELSE inlineNodeToText(node)

C10_Covers(text) ==
  LET parts == parseInlineContent(text)
      pipe  == C10_PipeForm(text, 1)
  IN  /\ Len(pipe) = Len(parts)
      /\ concatMap([k \in 1..Len(parts) |-> C10_Source(parts[k], pipe[k])]) = text
      /\ (\A k \in 1..Len(pipe) : ~pipe[k]) => inlineNodesToText(parts) = text

\* C10: the nodes of a line are in source order and cover the line: put
\* back inside their delimiters, with their link targets, they spell the
\* line, and the rendering of a line with no pipe-form link is the line.
C10_TokenizerCovers ==
  pc # "call" => \A k \in 1..Len(lines) : C10_Covers(lines[k])

\* a line that starts with a pipe-form link and goes on with plain text
C10_Witness ==
  /\ pc = "rendered"
  /\ Len(lines) = 1
  /\ LET parts == parseInlineContent(lines[1])
     IN  /\ Len(parts) >= 2
         /\ C10_PipeForm(lines[1], 1)[1]
         /\ "marks" \notin DOMAIN parts[2]

----------------------------------------------------------------------------
(* Claims C11..C20 *)

\* the text runs at and below a node
RECURSIVE textRuns(_)
textRuns(node) ==
  IF typeOf(node) = "text" THEN {node}
  ELSE UNION {textRuns(children(node)[k]) : k \in 1..Len(children(node))}

\* a run carries a mark
hasMark(run, mark) ==
  "marks" \in DOMAIN run /\ \E k \in 1..Len(run.marks) : run.marks[k] = mark

C11_Text == <<"*", "*">> \o MarkdownLink \o <<"*", "*">>

\* C11: the document of the text **[link](http://x)** is one paragraph of one
\* text run, the run has the text link and carries both the strong mark and
\* the link mark with href http://x.
C11_StrongLink ==
  (pc = "parsed" /\ content = Str(C11_Text)) =>
    /\ Len(doc.content) = 1
    /\ doc.content[1].type = "paragraph"
    /\ Len(doc.content[1].content) = 1
    /\ LET run == doc.content[1].content[1]
       IN  /\ run.type = "text"
           /\ run.text = LinkText
           /\ hasMark(run, [type |-> "strong"])
           /\ hasMark(run, linkMark(LinkHref))

\* C12: every text run of a document that createADFDocument returns carries
\* at most one mark, for every input.
C12_SingleMark ==
  pc \in {"parsed", "rendered"} =>
    \A run \in textRuns(doc) : "marks" \in DOMAIN run => Len(run.marks) <= 1

\* a strong run came out whose text is itself a complete link form
C12_Witness ==
  /\ pc = "parsed"
  /\ \E run \in textRuns(doc) :
       /\ run.text # <<>>
       /\ hasMark(run, [type |-> "strong"])
       /\ Len(run.marks) = 1
       /\ matchMarkdownLink(run.text, 1).end = Len(run.text) + 1

\* a read tool has answered with the text of the field
Surfaced == pc \in {"issue", "comments", "worklogs"}

C13_Order == <<"strong", "em", "strike", "code", "link">>

\* the marks of a list in the fixed order, from the k-th kind on
RECURSIVE C13_Sorted(_, _)
C13_Sorted(marks, k) ==
  IF k > Len(C13_Order) THEN <<>>
  ELSE LET here == {j \in 1..Len(marks) : marks[j].type = C13_Order[k]}
       IN  (IF here = {} THEN <<>> ELSE <<marks[CHOOSE j \in here : TRUE]>>)
             \o C13_Sorted(marks, k + 1)

\* C13: a text run that carries several marks renders with the delimiters
\* nested in the fixed order strong (innermost), em, strike, code, link
\* (outermost), in whatever order the run lists its marks; a run with the
\* marks link and strong, in either order, renders as [**link**](http://x).
C13_FixedOrder ==
  \A run \in MarkedRuns :
    (Surfaced /\ doc = document(<<paragraph(<<run>>)>>)) =>
      /\ out = applyMarks(run.text, C13_Sorted(run.marks, 1))
      /\ (hasMark(run, [type |-> "strong"]) /\ hasMark(run, linkMark(LinkHref))
            /\ Len(run.marks) = 2)
           => out = <<"[", "*", "*">> \o LinkText \o <<"*", "*", "]", "(">>
                      \o LinkHref \o <<")">>

\* every mark of every text run of the field is an object
C14_MarksAreObjects ==
  \A run \in textRuns(doc) :
    "marks" \in DOMAIN run => \A k \in 1..Len(run.marks) : ~nullish(run.marks[k])

\* C14: rendering degrades and never throws: for a field whose content is
\* missing, null or no array at any level, or whose content arrays hold null
\* or malformed entries, adfToText returns a text and raises no error, and a
\* field that is no document at all renders as the empty text.
C14_Degrades ==
  (pc # "received" /\ C14_MarksAreObjects) =>
    /\ pc # "failed"
    /\ (noDocument(doc) /\ ~isString(doc)) => out = <<>>

C15_Known ==
  { "paragraph", "heading", "bulletList", "orderedList", "blockquote",
    "codeBlock", "rule", "table", "mediaSingle", "mediaGroup" }

\* the field is a document of one block of a type with no case of its own,
\* whose content, when there, is an array of nodes
C15_Unrecognized ==
  /\ ~noDocument(doc)
  /\ Len(doc.content) = 1
  /\ "type" \in DOMAIN doc.content[1]
  /\ doc.content[1].type \notin C15_Known
  /\ "notArray" \notin DOMAIN doc.content[1]
  /\ \A k \in 1..Len(children(doc.content[1])) :
       "type" \in DOMAIN children(doc.content[1])[k]

\* C15: a block of an unrecognized type renders the text of its nested
\* content: the empty text when it has no content, the text of its inline
\* nodes when its content is inline, and the text of the block it holds when
\* its content is a block such as a paragraph.
C15_UnknownFallback ==
  (pc # "received" /\ C15_Unrecognized) =>
    LET kids == children(doc.content[1])
        blocks == {k \in 1..Len(kids) : kids[k].type \in C15_Known}
    IN  /\ pc # "failed"
        /\ "content" \notin DOMAIN doc.content[1] => out = <<>>
        /\ blocks = {} => out = inlineNodesToText(kids)
        /\ (Len(kids) = 1 /\ blocks = {1}) => out = blockNodeToText(kids[1])

\* C16: a field that is null or absent renders as the empty text and raises
\* no error: each of the read tools that surface a description, a comment
\* body or a worklog comment answers with a result, the text being empty.
C16_NullField ==
  (pc # "received" /\ nullish(doc)) => (Surfaced /\ out = <<>>)

\* jira_get_comments has answered for a comment whose body is null
C16_Witness == pc = "comments" /\ doc = Null /\ out = <<>>

\* the heading blocks of a document
C17_Headings == {k \in 1..Len(doc.content) : doc.content[k].type = "heading"}

\* the heading a line asks for: level 0 when the line has neither form
C17_Asked(line) ==
  IF jiraHeading(line).ok THEN jiraHeading(line)
  ELSE mdHeading(line)

\* C17: every heading of a document that parse returns has a level in 1..6;
\* a line hN. text and a line of N hashes, a space and text, N in 1..6, both
\* give the heading of level N over the tokens of the text, the same node
\* for both forms; a line with a marker outside 1..6, such as h7. x or seven
\* hashes, gives no heading.
C17_HeadingLevels ==
  (pc = "parsed" /\ IsText) =>
    /\ \A k \in C17_Headings : doc.content[k].attrs.level \in 1..6
    /\ Len(split(content.s)) = 1 /\ trim(content.s) # <<>> =>
         LET asked == C17_Asked(trim(content.s))
         IN  IF asked.ok
               THEN doc.content =
                      <<heading(asked.level, parseInlineContent(asked.text))>>
               ELSE C17_Headings = {}

\* the six span forms tried at one position, in the order strong, strike,
\* emphasis, markdown link, pipe link, inline code
C18_Forms(text, p) ==
  << matchDelimited(text, p, <<"*", "*">>, 1),
     matchDelimited(text, p, <<"~", "~">>, 2),
     matchDelimited(text, p, <<"*">>, 3),
     matchMarkdownLink(text, p),
     matchPipeLink(text, p),
     matchDelimited(text, p, <<Backtick>>, 6) >>

\* the first form of that order that matches at p, NoMatch when none does
C18_First(text, p) ==
  LET hits == {k \in 1..6 : C18_Forms(text, p)[k].alt # 0}
  IN  IF hits = {} THEN NoMatch
      ELSE C18_Forms(text, p)[CHOOSE k \in hits : \A j \in hits : k <= j]

\* the runs are what a scan of the text from p on gives: a plain run spans
\* positions where no form matches, a marked run is the first form that
\* matches at its position
RECURSIVE C18_InOrder(_, _, _)
C18_InOrder(text, p, runs) ==
  IF runs = <<>> THEN p > Len(text)
  ELSE IF "marks" \in DOMAIN Head(runs)
    THEN /\ C18_First(text, p).alt # 0
         /\ Head(runs) = matchNode(C18_First(text, p))
         /\ C18_InOrder(text, C18_First(text, p).end, Tail(runs))
  ELSE LET n == Len(Head(runs).text)
       IN  /\ n >= 1
           /\ p + n - 1 <= Len(text)
           /\ Head(runs).text = SubSeq(text, p, p + n - 1)
           /\ \A q \in p..(p + n - 1) : C18_First(text, q).alt = 0
           /\ Tail(runs) # <<>> => "marks" \in DOMAIN Tail(runs)[1]
           /\ C18_InOrder(text, p + n, Tail(runs))

\* the input is one line that the block builder takes as a paragraph
C18_ParagraphLine ==
  /\ IsText
  /\ Len(split(content.s)) = 1
  /\ trim(content.s) # <<>>
  /\ lineKind(trim(content.s)) = "paragraph"

\* C18: the tokenizer scans a line left to right and at each position takes
\* the first of the forms strong, strike, emphasis, markdown link, pipe link,
\* inline code that matches: the leftmost span start wins, and the text
\* **a** gives one strong run, never an emphasis run.
C18_FirstMatchWins ==
  (pc = "parsed" /\ C18_ParagraphLine) =>
    /\ Len(doc.content) = 1
    /\ C18_InOrder(trim(content.s), 1, doc.content[1].content)
    /\ trim(content.s) = <<"*", "*", "a", "*", "*">> =>
         doc.content[1].content = <<markedNode(<<"a">>, [type |-> "strong"])>>

\* the text **a** has been tokenized
C18_Witness ==
  /\ pc = "parsed"
  /\ content = Str(<<"*", "*", "a", "*", "*">>)
  /\ hasMark(doc.content[1].content[1], [type |-> "strong"])

\* a line with the digits of its ordered marker replaced by the digit 7
C19_OtherDigits(rawLine) ==
  LET line == trimStart(rawLine)
      lead == Len(rawLine) - Len(line)
  IN  IF lineKind(trim(rawLine)) = "ordered"
        THEN SubSeq(rawLine, 1, lead) \o <<"7">>
               \o SubSeq(line, spanLength(line, 1, Digits) + 1, Len(line))
        ELSE rawLine

\* the text with the digits of every ordered marker replaced
C19_Renumbered(text) ==
  join([k \in 1..Len(split(text)) |-> C19_OtherDigits(split(text)[k])], <<"\n">>)

\* no line of the text opens a fence, so every ordered marker is a list item
C19_NoFence(text) ==
  \A k \in 1..Len(split(text)) : lineKind(trim(split(text)[k])) # "fence"

\* C19: the number written in an ordered-list marker is discarded: a text
\* and the same text with other digits in its ordered markers parse to equal
\* documents, and the rendering of an ordered list numbers its items 1, 2,
\* 3, ... by their position.
C19_DigitsDiscarded ==
  (pc = "rendered" /\ IsText /\ C19_NoFence(content.s)) =>
    /\ doc = createADFDocument(Str(C19_Renumbered(content.s)))
    /\ \A b \in 1..Len(doc.content) :
         doc.content[b].type = "orderedList" =>
           LET rows == split(blockNodeToText(doc.content[b]))
           IN  /\ Len(rows) = Len(doc.content[b].content)
               /\ \A k \in 1..Len(rows) :
                    startsWith(rows[k], <<digitChar(k), ".", " ">>)

\* an ordered list of two items or more whose markers are not 1, 2, ...
C19_Witness ==
  /\ pc = "rendered"
  /\ IsText
  /\ C19_NoFence(content.s)
  /\ \E b \in 1..Len(doc.content) :
       doc.content[b].type = "orderedList" /\ Len(doc.content[b].content) >= 2
  /\ out # trim(content.s)

\* C20: no state crosses conversion calls: over every sequence of calls of
\* createADFDocument and adfToText, two calls of the same function with the
\* same input return equal results whatever calls came between them, and
\* the tree an earlier call returned is the same tree after every later
\* call.
C20_NoStateCrossesCalls ==
  /\ \A j, k \in 1..Len(calls) :
       (calls[j].op = calls[k].op /\ calls[j].input = calls[k].input)
         => calls[j].result = calls[k].result
  /\ \A k \in 1..Len(calls) :
       calls[k].op = "parse" => document(heap[calls[k].ref]) = calls[k].result

\* the same text was parsed twice, with a parse of another text and so a
\* push to another list in between
C20_Witness ==
  /\ Len(calls) = 3
  /\ \A k \in 1..3 : calls[k].op = "parse"
  /\ calls[1].input = calls[3].input
  /\ calls[2].input # calls[1].input
  /\ Len(calls[1].result.content) = 1
  /\ calls[1].result.content[1].type = "bulletList"
  /\ calls[1].ref # calls[3].ref

----------------------------------------------------------------------------
(* Claims C21..C30 *)

\* texts put one after the other with a separator between them
RECURSIVE C21_Joined(_, _)
C21_Joined(texts, sep) ==
  IF texts = <<>> THEN <<>>
  ELSE IF Len(texts) = 1 THEN Head(texts)
  ELSE Head(texts) \o sep \o C21_Joined(Tail(texts), sep)

\* the node is a table of rows of cells of blocks
C21_IsTable(node) ==
  /\ typeOf(node) = "table"
  /\ "content" \in DOMAIN node
  /\ \A r \in 1..Len(node.content) :
       /\ typeOf(node.content[r]) = "tableRow"
       /\ "content" \in DOMAIN node.content[r]
       /\ \A c \in 1..Len(node.content[r].content) :
            /\ typeOf(node.content[r].content[c]) = "tableCell"
            /\ "content" \in DOMAIN node.content[r].content[c]
            /\ \A b \in 1..Len(node.content[r].content[c].content) :
                 "type" \in DOMAIN node.content[r].content[c].content[b]

\* the text of a cell: its blocks, rendered, with one space between them
C21_Cell(cell) ==
  C21_Joined([b \in 1..Len(cell.content) |-> blockNodeToText(cell.content[b])],
             <<" ">>)

\* the line of a row: bar and space, the cells with space, bar, space
\* between them, space and bar
C21_Row(row) ==
  <<"|", " ">>
    \o C21_Joined([c \in 1..Len(row.content) |-> C21_Cell(row.content[c])],
                  <<" ", "|", " ">>)
    \o <<" ", "|">>

\* C21: a table renders one line per row, each line being a bar and a space,
\* the texts of the cells of the row joined by space, bar, space, then a
\* space and a bar; the blocks of a cell are rendered and joined by one
\* space; one row of the two cells a and b renders as | a | b |.
C21_TableLines ==
  (Surfaced /\ ~noDocument(doc) /\ Len(doc.content) = 1
     /\ C21_IsTable(doc.content[1])) =>
    /\ out = C21_Joined([r \in 1..Len(doc.content[1].content) |->
                           C21_Row(doc.content[1].content[r])], <<"\n">>)
    /\ doc.content[1].content =
         <<tableRow(<<tableCell(<<paragraph(<<TextA>>)>>),
                      tableCell(<<paragraph(<<TextB>>)>>)>>)>>
         => out = <<"|", " ", "a", " ", "|", " ", "b", " ", "|">>

\* a table of several rows with a cell of two blocks has been rendered
C21_Witness ==
  /\ Surfaced
  /\ ~noDocument(doc)
  /\ Len(doc.content) = 1
  /\ C21_IsTable(doc.content[1])
  /\ Len(doc.content[1].content) >= 2
  /\ \E c \in 1..Len(doc.content[1].content[1].content) :
       Len(doc.content[1].content[1].content[c].content) >= 2

\* the lines of a text that are not blank, trimmed, in their order
RECURSIVE C23_NonBlank(_)
C23_NonBlank(ls) ==
  IF ls = <<>> THEN <<>>
  ELSE (IF trim(Head(ls)) = <<>> THEN <<>> ELSE <<trim(Head(ls))>>)
         \o C23_NonBlank(Tail(ls))

\* every line of the text that is not blank is a quote line
C23_QuoteLinesOnly(text) ==
  /\ C23_NonBlank(split(text)) # <<>>
  /\ \A k \in 1..Len(C23_NonBlank(split(text))) :
       startsWith(C23_NonBlank(split(text))[k], <<">", " ">>)

\* C23: quote lines that follow one another, blank lines between them
\* allowed, give one blockquote that holds one paragraph per quote line, in
\* the order of the lines; a blockquote of a document that parse returns
\* holds paragraphs only.
C23_QuoteRun ==
  (pc = "parsed" /\ IsText) =>
    /\ \A b \in 1..Len(doc.content) :
         doc.content[b].type = "blockquote" =>
           /\ Len(doc.content[b].content) >= 1
           /\ \A k \in 1..Len(doc.content[b].content) :
                doc.content[b].content[k].type = "paragraph"
    /\ C23_QuoteLinesOnly(content.s) =>
         LET quoted == C23_NonBlank(split(content.s))
         IN  doc.content =
               << [type |-> "blockquote",
                   content |-> [k \in 1..Len(quoted) |->
                     paragraph(parseInlineContent(substring(quoted[k], 2)))]] >>

\* three quote lines with a blank line between two of them were parsed
C23_Witness ==
  /\ pc = "parsed"
  /\ IsText
  /\ C23_QuoteLinesOnly(content.s)
  /\ Len(C23_NonBlank(split(content.s))) = 3
  /\ Len(split(content.s)) > 3
  /\ Len(doc.content[1].content) = 3

C24_RuleLines == {<<"-", "-", "-">>, <<"-", "-", "-", "-">>}

\* the for loop is at a line that is a rule
C24_AtRule ==
  pc = "line" /\ i <= Len(lines) /\ trim(lines[i]) \in C24_RuleLines

\* C24: a line that is exactly three or four dashes always pushes a rule
\* block of its own, whatever the last block is, and the line after a rule
\* block never adds to a block that is there already: it pushes a new block
\* or none.  A rule line between two bullet lines gives bulletList, rule,
\* bulletList.
C24_RuleStandsAlone ==
  [][ /\ C24_AtRule => nodes' = Append(nodes, [type |-> "rule"])
      /\ (pc = "line" /\ lastIs(nodes, "rule")) =>
           (nodes' = nodes \/ SubSeq(nodes', 1, Len(nodes)) = nodes)
      /\ (pc = "line" /\ pc' = "parsed" /\ Len(lines) = 3
           /\ lineKind(trim(lines[1])) = "bullet"
           /\ trim(lines[2]) \in C24_RuleLines
           /\ lineKind(trim(lines[3])) = "bullet") =>
           /\ Len(doc'.content) = 3
           /\ doc'.content[1].type = "bulletList"
           /\ doc'.content[2].type = "rule"
           /\ doc'.content[3].type = "bulletList" ]_vars

\* a rule line of four dashes between two bullet lines has been parsed
C24_Witness ==
  /\ pc = "parsed"
  /\ Len(lines) = 3
  /\ lineKind(trim(lines[1])) = "bullet"
  /\ trim(lines[2]) = <<"-", "-", "-", "-">>
  /\ lineKind(trim(lines[3])) = "bullet"
  /\ Len(doc.content) = 3

\* the lists among blocks hold an item or more, each item one paragraph
C25_ListsOf(blocks) ==
  \A b \in 1..Len(blocks) :
    blocks[b].type \in {"bulletList", "orderedList"} =>
      /\ Len(blocks[b].content) >= 1
      /\ \A k \in 1..Len(blocks[b].content) :
           /\ blocks[b].content[k].type = "listItem"
           /\ Len(blocks[b].content[k].content) = 1
           /\ blocks[b].content[k].content[1].type = "paragraph"

\* C25: at every step of building a document and in the document returned,
\* each bulletList and each orderedList holds at least one item and each
\* list item holds exactly one paragraph.
C25_ListShape ==
  /\ C25_ListsOf(nodes)
  /\ doc # NoDocument => C25_ListsOf(doc.content)

\* the loop is under way with a list of two items built so far
C25_Witness ==
  /\ pc = "line"
  /\ i <= Len(lines)
  /\ \E b \in 1..Len(nodes) :
       nodes[b].type = "orderedList" /\ Len(nodes[b].content) = 2

\* no span form matches at any position of the text
C26_NoSpan(text) == \A p \in 1..Len(text) : C18_First(text, p).alt = 0

C26_EmptySpans ==
  { <<"*", "*", "*", "*">>, <<"~", "~", "~", "~">>, <<Backtick, Backtick>> }

\* C26: delimiters with nothing between them are no match, and a text that
\* matches no span is kept as it is: the lines ****, ~~~~ and two backticks,
\* and every line no span form matches, tokenize to one text run with no
\* marks whose text is the whole line; the empty line, like null, tokenizes
\* to the empty sequence; the tokenizer returns for every line.
C26_PlainFallback ==
  /\ pc \in {"text", "tokens"}
  /\ pc = "tokens" =>
       /\ absent(content) => nodes = <<>>
       /\ (~absent(content) /\ C26_NoSpan(content.s)) =>
            nodes = <<[type |-> "text", text |-> content.s]>>
       /\ (~absent(content) /\ content.s \in C26_EmptySpans) =>
            (Len(nodes) = 1 /\ "marks" \notin DOMAIN nodes[1]
               /\ nodes[1].text = content.s)

\* the line **** has been tokenized
C26_Witness ==
  /\ pc = "tokens"
  /\ content = Str(<<"*", "*", "*", "*">>)
  /\ Len(nodes) = 1

\* what a step of the loops does with line i: exactly one of these
C27_Blank ==
  /\ pc = "line" /\ pc' = "line"
  /\ trim(lines[i]) = <<>>
  /\ nodes' = nodes /\ codeLines' = codeLines

C27_Block ==
  /\ pc = "line" /\ pc' = "line"
  /\ trim(lines[i]) # <<>>
  /\ nodes' # nodes /\ codeLines' = codeLines

C27_Delimiter ==
  /\ \/ pc = "line" /\ pc' = "fence" /\ startsWith(trim(lines[i]), Fence)
     \/ pc = "fence" /\ pc' = "line" /\ trim(lines[i]) = Fence
  /\ codeLines' \in {codeLines, <<>>}

C27_Body ==
  /\ pc = "fence" /\ pc' = "fence"
  /\ nodes' = nodes /\ codeLines' = Append(codeLines, lines[i])

\* one step of the line loop or of the capture loop
C27_Step ==
  \/ /\ i <= Len(lines)
     /\ i' = i + 1
     /\ Cardinality({k \in 1..4 :
           \/ k = 1 /\ C27_Blank
           \/ k = 2 /\ C27_Block
           \/ k = 3 /\ C27_Delimiter
           \/ k = 4 /\ C27_Body}) = 1
  \/ \* a fence that is never closed ends with the lines
     /\ i = Len(lines) + 1
     /\ pc = "fence" /\ pc' = "line"
     /\ i' = i + 1
  \/ \* the return, with every line behind the index
     /\ i > Len(lines)
     /\ pc = "line" /\ pc' = "parsed"
     /\ i' = i

\* C27: createADFDocument returns for every text, and it takes each line
\* exactly once: the line index moves forward by one with every step, and
\* the step either skips the line as blank, or makes one block of it, or
\* appends it to the body of a fence, or takes it as the delimiter of a
\* fence; a fence that is never closed ends with the last line.
C27_Terminates ==
  /\ <>(pc = "parsed")
  /\ [][(pc \in {"line", "fence"}) => C27_Step]_vars

\* a text whose fence is never closed has been parsed
C27_Witness ==
  /\ pc = "parsed"
  /\ Len(lines) >= 3
  /\ i = Len(lines) + 2
  /\ lastIs(nodes, "codeBlock")
  /\ \E k \in 1..Len(nodes) : nodes[k].type = "bulletList"

\* the error the handler caught came with details of the backend
C22_Carried(c, error) ==
  /\ hasJiraErrors(error) =>
       \/ "jiraErrors" \in DOMAIN c /\ c.jiraErrors = error.data.errorMessages
       \/ "details" \in DOMAIN c /\ c.details = error.data
  /\ hasFieldErrors(error) =>
       \/ "fieldErrors" \in DOMAIN c /\ c.fieldErrors = error.data.errors
       \/ "details" \in DOMAIN c /\ c.details = error.data

\* C22: when a request is rejected with error messages or field errors of
\* Jira, the error result of the call holds them, whatever NODE_ENV is.
C22_JiraDetails ==
  (pc = "answered" /\ thrown # NoError) =>
    /\ "isError" \in DOMAIN reply
    /\ C22_Carried(reply.content, thrown)

\* an argument of the call is malformed: issue key, project key, JQL,
\* summary, labels, story points, maxResults, unsafe parameter
C28_Malformed ==
  LET a == request.args
  IN CASE request.name = "jira_create_issue" ->
            \/ truthy(a.projectKey) /\ validateProjectKey(a.projectKey) # NoThrow
            \/ validateSafeParam(orDefault(a.issueType, Task), 100) # NoThrow
            \/ validateSafeParam(orDefault(a.priority, Medium), 100) # NoThrow
            \/ validateLabels(orDefault(a.labels, Arr(<<>>))) # NoThrow
            \/ sanitizeString(a.summary, 500) # NoThrow
            \/ ~nullish(a.storyPoints) /\ validateStoryPoints(a.storyPoints) # NoThrow
       [] request.name = "jira_search_issues" ->
            \/ validateJQL(a.jql) # NoThrow
            \/ validateMaxResults(orDefault(a.maxResults, Num(50))) # NoThrow
       [] request.name = "jira_update_issue" ->
            \/ validateIssueKey(a.issueKey) # NoThrow
            \/ truthy(a.summary) /\ sanitizeString(a.summary, 500) # NoThrow
       [] request.name = "jira_get_project_info" ->
            validateProjectKey(orDefault(a.projectKey, JIRA_PROJECT_KEY)) # NoThrow
       [] request.name = "jira_delete_issue" ->
            validateIssueKey(a.issueKey) # NoThrow
       [] OTHER -> FALSE

\* C28: a call with a malformed argument sends no request to the backend
\* and its result is an error; so a call that has sent a request has passed
\* every validation before.
C28_ValidationFirst ==
  C28_Malformed =>
    /\ sent = <<>>
    /\ pc # "awaiting"
    /\ pc = "answered" => ("isError" \in DOMAIN reply /\ thrown # NoError)

C29_Put == [method |-> "put", path |-> "/issue/{key}"]

C29_Get == [method |-> "get", path |-> "/issue/{key}/transitions"]

C29_Post == [method |-> "post", path |-> "/issue/{key}/transitions"]

C29_Given == truthy(request.args.summary) \/ truthy(request.args.description)

C29_Asked == truthy(request.args.status)

\* the transitions have been read and one has the name of the status
C29_Exists ==
  /\ "transitions" \in DOMAIN frame
  /\ \E k \in 1..Len(frame.transitions) :
       Str(frame.transitions[k]) = request.args.status

C29_Planned ==
  (IF C29_Given THEN <<C29_Put>> ELSE <<>>)
    \o (IF C29_Asked THEN <<C29_Get>> ELSE <<>>)
    \o (IF C29_Exists THEN <<C29_Post>> ELSE <<>>)

\* C29: jira_update_issue sends the field update (only with a summary or a
\* description), then the read of the transitions (only with a status), then
\* the transition (only when one has the name of the status), in this order;
\* a call that ends without error has sent all of them, a step that fails
\* gives an error result, and nothing is sent after a failure.
C29_RequestOrder ==
  /\ [](request.name = "jira_update_issue" =>
          /\ Len(sent) <= Len(C29_Planned)
          /\ sent = SubSeq(C29_Planned, 1, Len(sent))
          /\ (pc = "answered" /\ thrown = NoError) => sent = C29_Planned
          /\ (pc = "answered" /\ thrown # NoError) => "isError" \in DOMAIN reply)
  /\ [][thrown # NoError => sent' = sent]_vars

\* C30: jira_update_issue says success only when all it was asked for was
\* applied: with no summary, description or status it sends nothing and says
\* success false; with a status that no transition has the name of, it sends
\* no transition and says success false with a warning that lists the
\* transitions there are.
C30_SuccessMeansApplied ==
  (request.name = "jira_update_issue" /\ pc = "answered" /\ thrown = NoError) =>
    LET c == reply.content
        posted == \E k \in 1..Len(sent) : sent[k] = C29_Post
    IN /\ (~C29_Given /\ ~C29_Asked) => (sent = <<>> /\ c.success = FALSE)
       /\ (C29_Asked /\ ~C29_Exists) =>
            /\ ~posted
            /\ c.success = FALSE
            /\ "warnings" \in DOMAIN c
            /\ \E k \in 1..Len(c.warnings) :
                 c.warnings[k].available = join(frame.transitions, <<",", " ">>)
       /\ c.success = TRUE =>
            /\ C29_Given => \E k \in 1..Len(sent) : sent[k] = C29_Put
            /\ C29_Asked => posted

====
